---- MODULE Spec2Model ----
(***************************************************************************)
(* A model of the rendering engine of simple-codegen: the indentation      *)
(* tracking Formatter, the import table of a Scope (push_import and        *)
(* fmt_imports), the item sequencer Scope::fmt and Display for Scope.      *)
(*                                                                         *)
(* Text is a sequence of chunks.  A chunk is a string holding no newline   *)
(* ("use ", "::", "Foo"), the newline NL, or one space SP.  A Rust string  *)
(* that may hold the separator "::" (the `ty` argument of push_import) is  *)
(* the sequence of its pieces between the separators, which is what        *)
(* str::split("::") yields.                                                *)
(***************************************************************************)
EXTENDS Integers, Sequences, FiniteSets

VARIABLES scope, last, log, block, fmtr, file, disk, library, running

vars == <<scope, last, log, block, fmtr, file, disk, library, running>>

NL == "\n"
SP == " "

\* ---------------------------------------------------------------- bounds
MaxImports == 3
MaxItems == 3
MaxScopeImports == 1
MaxNest == 3
MaxBody == 2
MaxFmtOps == 3
MaxRenders == 2
MaxDecls == 2
MaxFields == 2
MaxFns == 2
MaxLibFiles == 3
MaxWrites == 3

\* ------------------------------------------------------------ text helpers
RECURSIVE Concat(_)
Concat(ss) == IF ss = <<>> THEN <<>> ELSE Head(ss) \o Concat(Tail(ss))

Last(s) == s[Len(s)]

Front(s) == SubSeq(s, 1, Len(s) - 1)

Repeat(c, n) == [i \in 1..n |-> c]

\* str::lines(): the pieces between newlines; a final newline ends the last
\* line and opens no new one, and the empty string has no line.
lines(text) ==
    LET nl == {i \in 1..Len(text) : text[i] = NL}
        n == Cardinality(nl) + (IF text # <<>> /\ text[Len(text)] # NL THEN 1 ELSE 0)
        nth(k) == IF k = 0 THEN 0
                  ELSE IF k > Cardinality(nl) THEN Len(text) + 1
                  ELSE CHOOSE i \in nl : Cardinality({j \in nl : j <= i}) = k
    IN [k \in 1..n |-> SubSeq(text, nth(k - 1) + 1, nth(k) - 1)]

\* ------------------------------------------------------------- Formatter
INDENT_WIDTH == 4

Formatter_new == [output |-> <<>>, indent_level |-> 0, at_line_start |-> TRUE,
                  res |-> "Ok"]

is_start_of_line(f) == f.at_line_start

\* (not the code: the indentation prefix goes before a newline as well)
write_chunk_indenting_newlines(f, c) ==
    IF c = "" THEN f
    ELSE [f EXCEPT !.output = (@ \o (IF f.at_line_start /\ f.indent_level > 0
                                    THEN Repeat(SP, f.indent_level * INDENT_WIDTH)
                                    ELSE <<>>)) \o <<c>>,
                   !.at_line_start = (c = NL)]

\* (not the code: at_line_start cleared by every write)
write_chunk_clearing(f, c) ==
    IF c = "" THEN f
    ELSE [f EXCEPT !.output = (@ \o (IF f.at_line_start /\ c # NL /\ f.indent_level > 0
                                    THEN Repeat(SP, f.indent_level * INDENT_WIDTH)
                                    ELSE <<>>)) \o <<c>>,
                   !.at_line_start = FALSE]

\* One chunk: the indentation prefix goes before the first chunk of a line
\* that is not itself a newline; the prefix does not change at_line_start.
\* An empty chunk writes nothing.
write_chunk(f, c) ==
    IF c = "" THEN f
    ELSE LET pre == IF f.at_line_start /\ c # NL /\ f.indent_level > 0
                    THEN Repeat(SP, f.indent_level * INDENT_WIDTH)
                    ELSE <<>>
         IN [f EXCEPT !.output = (@ \o pre) \o <<c>>,
                      !.at_line_start = (c = NL)]

RECURSIVE write_chunks(_, _)
write_chunks(f, text) ==
    IF text = <<>> THEN f
    ELSE write_chunks(write_chunk(f, Head(text)), Tail(text))

\* write!(fmt, ...): nothing is written once an earlier call has failed (`?`).
write(f, text) == IF f.res # "Ok" THEN f ELSE write_chunks(f, text)

\* Formatter::indent(body_fn), in two halves around the body: one level
\* deeper before it, and back after it whatever the body returned.  f0 is the
\* formatter at the call: after an earlier failure the call is never made.
\* A panic of the body unwinds through it.
indent_enter(f) ==
    IF f.res # "Ok" THEN f ELSE [f EXCEPT !.indent_level = @ + 1]

\* (not the code: the level restored only when the body succeeded)
indent_leave_on_success(f0, g) ==
    IF f0.res # "Ok" THEN f0
    ELSE IF g.res # "Ok" THEN g
    ELSE [g EXCEPT !.indent_level = @ - 1]

indent_leave(f0, g) ==
    IF f0.res # "Ok" THEN f0
    ELSE IF g.res = "Panic" THEN g
    ELSE [g EXCEPT !.indent_level = @ - 1]

\* Formatter::block(body_fn), around the body, as Block::fmt inlines it: the
\* opening brace on the line of the preceding text, the body one level
\* deeper, the closing brace and a newline.
block_head(f) ==
    LET f1 == IF ~is_start_of_line(f) THEN write(f, <<SP>>) ELSE f
    IN write(f1, <<"{", NL>>)

\* (not the code: a closing brace that leaves the line open)
block_tail_bare(g) == write(g, <<"}">>)

block_tail(g) == write(g, <<"}", NL>>)

\* ------------------------------------------------------------ visibility
Private == <<"Private">>
Pub == <<"Pub">>
PubCrate == <<"PubCrate">>
PubSelf == <<"PubSelf">>
PubSuper == <<"PubSuper">>
Custom(s) == <<"Custom", s>>

Vis_fmt(vis, f) ==
    CASE vis = Private -> f
      [] vis = Pub -> write(f, <<"pub ">>)
      [] vis = PubCrate -> write(f, <<"pub(crate) ">>)
      [] vis = PubSelf -> write(f, <<"pub(self) ">>)
      [] vis = PubSuper -> write(f, <<"pub(super) ">>)
      [] OTHER -> write(f, <<vis[2], " ">>)

\* --------------------------------------------------------------- imports
\* The import table, IndexMap<String, IndexMap<String, Import>>: a sequence
\* of [path, tys] in insertion order of the paths, tys a sequence of
\* [ty, import] in insertion order of the names.
Import_new(path, ty) == [line |-> <<path, "::", ty>>, vis |-> Private]

Import_with_vis(import, vis) == [import EXCEPT !.vis = vis]

\* Option<T>: None is the empty sequence, Some(x) the sequence <<x>>.
None == <<>>
Some(x) == <<x>>

Scope_new == [doc |-> None, imports |-> <<>>, items |-> <<>>]

PathIndex(imports, path) ==
    IF \E i \in 1..Len(imports) : imports[i].path = path
    THEN CHOOSE i \in 1..Len(imports) : imports[i].path = path
    ELSE 0

TyIndex(tys, ty) ==
    IF \E i \in 1..Len(tys) : tys[i].ty = ty
    THEN CHOOSE i \in 1..Len(tys) : tys[i].ty = ty
    ELSE 0

\* (not the code: the segment after the last "::")
last_segment(ty) == ty[Len(ty)]

\* ty.split("::").next()
first_segment(ty) == ty[1]

\* (not the code: an insert that replaces the stored import)
insert_replacing(tys, ty, import) ==
    IF TyIndex(tys, ty) # 0
    THEN [tys EXCEPT ![TyIndex(tys, ty)] = [ty |-> ty, import |-> import]]
    ELSE Append(tys, [ty |-> ty, import |-> import])

\* entry(ty).or_insert_with(..): the stored import stays when the key is there
or_insert_with(tys, ty, import) ==
    IF TyIndex(tys, ty) # 0 THEN tys
    ELSE Append(tys, [ty |-> ty, import |-> import])

\* entry(path).or_default()
or_default(imports, path) ==
    IF PathIndex(imports, path) # 0 THEN imports
    ELSE Append(imports, [path |-> path, tys |-> <<>>])

push_import(s, path, ty, vis) ==
    LET name == first_segment(ty)
        imps == or_default(s.imports, path)
        i == PathIndex(imps, path)
    IN [s EXCEPT !.imports =
            [imps EXCEPT ![i].tys =
                or_insert_with(@, name, Import_with_vis(Import_new(path, name), vis))]]

\* The first loop of fmt_imports: the visibilities in first-seen order.
RECURSIVE collect_vis(_, _)
collect_vis(entries, visibilities) ==
    IF entries = <<>> THEN visibilities
    ELSE LET v == Head(entries).import.vis
         IN collect_vis(Tail(entries),
                IF \E i \in 1..Len(visibilities) : visibilities[i] = v
                THEN visibilities ELSE Append(visibilities, v))

AllEntries(imports) == Concat([i \in 1..Len(imports) |-> imports[i].tys])

RECURSIVE join_tys(_, _)
join_tys(tys, i) ==
    IF i > Len(tys) THEN <<>>
    ELSE (IF i # 1 THEN <<", ">> ELSE <<>>) \o <<tys[i]>> \o join_tys(tys, i + 1)

\* (not the code: a statement that lists the names of every visibility)
fmt_use_unfiltered(vis, entry, f) ==
    LET tys == [i \in 1..Len(entry.tys) |-> entry.tys[i].ty]
    IN IF tys = <<>> THEN f
       ELSE LET f1 == Vis_fmt(vis, f)
                f2 == write(f1, <<"use ", entry.path, "::">>)
            IN IF Len(tys) > 1
               THEN write(write(write(f2, <<"{">>), join_tys(tys, 1)), <<"};", NL>>)
               ELSE write(f2, <<tys[1], ";", NL>>)

\* The body of the inner loop of fmt_imports: one path under one visibility.
fmt_use(vis, entry, f) ==
    LET sel == SelectSeq(entry.tys, LAMBDA e : e.import.vis = vis)
        tys == [i \in 1..Len(sel) |-> sel[i].ty]
    IN IF tys = <<>> THEN f
       ELSE LET f1 == Vis_fmt(vis, f)
                f2 == write(f1, <<"use ", entry.path, "::">>)
            IN IF Len(tys) > 1
               THEN write(write(write(f2, <<"{">>), join_tys(tys, 1)), <<"};", NL>>)
               ELSE write(f2, <<tys[1], ";", NL>>)

RECURSIVE fmt_paths(_, _, _)
fmt_paths(vis, imports, f) ==
    IF imports = <<>> THEN f
    ELSE fmt_paths(vis, Tail(imports), fmt_use(vis, Head(imports), f))

RECURSIVE fmt_visibilities(_, _, _)
fmt_visibilities(visibilities, imports, f) ==
    IF visibilities = <<>> THEN f
    ELSE fmt_visibilities(Tail(visibilities), imports,
                          fmt_paths(Head(visibilities), imports, f))

\* (not the code: the visibilities in last-seen-first order)
fmt_imports_reversed(s, f) ==
    LET v == collect_vis(AllEntries(s.imports), <<>>)
    IN fmt_visibilities([i \in 1..Len(v) |-> v[Len(v) + 1 - i]], s.imports, f)

\* Scope::fmt_imports
fmt_imports(s, f) ==
    fmt_visibilities(collect_vis(AllEntries(s.imports), <<>>), s.imports, f)

\* The text of the import section of a scope rendered on its own.
ImportSection(s) == fmt_imports(s, Formatter_new).output

\* ------------------------------------------------------------- renderers
\* Doc::fmt
RECURSIVE Doc_lines(_, _)
Doc_lines(ls, f) ==
    IF ls = <<>> THEN f
    ELSE LET f1 == write(f, <<"///">>)
             f2 == IF Head(ls) # <<>> THEN write(f1, <<SP>> \o Head(ls)) ELSE f1
         IN Doc_lines(Tail(ls), write(f2, <<NL>>))

\* (not the code: the documentation written as one line)
Doc_fmt_one_line(doc, f) == write(f, <<"///", SP>> \o doc \o <<NL>>)

Doc_fmt(doc, f) == Doc_lines(lines(doc), f)

OptDoc_fmt(doc, f) == IF doc # None THEN Doc_fmt(doc[1], f) ELSE f

\* TypeDef::new; lints, attributes, repr, bounds and macros stay as new()
\* leaves them (empty), so fmt_head writes nothing for them.
TypeDef_new(name) == [ty |-> name, vis |-> Private, doc |-> None, derives |-> <<>>]

fmt_derive(derives, f) ==
    IF derives # <<>>
    THEN write(write(write(f, <<"#[derive(">>), join_tys(derives, 1)), <<")]", NL>>)
    ELSE f

\* TypeDef::fmt_head with no parents
fmt_head(type_def, keyword, f) ==
    LET f1 == OptDoc_fmt(type_def.doc, f)
        f2 == fmt_derive(type_def.derives, f1)
        f3 == Vis_fmt(type_def.vis, f2)
    IN write(f3, <<keyword, SP, type_def.ty>>)

\* Block and Body
Body_String(s) == [kind |-> "String", s |-> s]
Body_Block(b) == [kind |-> "Block", block |-> b]
Block_new == [body |-> <<>>]
Block_push_line(b, line) == [b EXCEPT !.body = Append(@, Body_String(line))]
Block_push_block(b, inner) == [b EXCEPT !.body = Append(@, Body_Block(inner))]

RECURSIVE Block_fmt(_, _)
RECURSIVE Bodies_fmt(_, _)

\* Body::fmt
Body_fmt(b, f) ==
    IF b.kind = "String" THEN write(f, b.s \o <<NL>>)
    ELSE Block_fmt(b.block, f)

Bodies_fmt(body, f) ==
    IF body = <<>> THEN f
    ELSE Bodies_fmt(Tail(body), Body_fmt(Head(body), f))

\* (not the code: a block whose body stays at the level of its braces)
Block_fmt_flat(b, f) ==
    LET f1 == IF ~is_start_of_line(f) THEN write(f, <<SP>>) ELSE f
        f2 == write(f1, <<"{", NL>>)
        f3 == Bodies_fmt(b.body, f2)
        f4 == write(f3, <<"}">>)
    IN write(f4, <<NL>>)

\* Block::fmt
Block_fmt(b, f) ==
    LET f1 == IF ~is_start_of_line(f) THEN write(f, <<SP>>) ELSE f
        f2 == write(f1, <<"{", NL>>)
        f3 == indent_leave(f2, Bodies_fmt(b.body, indent_enter(f2)))
        f4 == write(f3, <<"}">>)
    IN write(f4, <<NL>>)

\* Fields
Fields_Empty == [style |-> "Empty", list |-> <<>>]
Field_new(name, ty) == [name |-> name, ty |-> ty, vis |-> Private]

Fields_push_named(fields, field) ==
    CASE fields.style = "Empty" -> [style |-> "Named", list |-> <<field>>]
      [] fields.style = "Named" -> [fields EXCEPT !.list = Append(@, field)]
      [] OTHER -> [style |-> "Panic", list |-> <<>>]

\* (not the code: a push_tuple that turns a named list into a tuple)
Fields_push_tuple_lenient(fields, ty) ==
    CASE fields.style = "Tuple" -> [fields EXCEPT !.list = Append(@, ty)]
      [] OTHER -> [style |-> "Tuple", list |-> <<ty>>]

\* Fields::push_tuple
Fields_push_tuple(fields, ty) ==
    CASE fields.style = "Empty" -> [style |-> "Tuple", list |-> <<ty>>]
      [] fields.style = "Tuple" -> [fields EXCEPT !.list = Append(@, ty)]
      [] OTHER -> [style |-> "Panic", list |-> <<>>]

RECURSIVE named_fields_fmt(_, _)
named_fields_fmt(list, f) ==
    IF list = <<>> THEN f
    ELSE LET fd == Head(list)
             f1 == Vis_fmt(fd.vis, f)
             f2 == write(f1, <<fd.name, ": ", fd.ty, ",", NL>>)
         IN named_fields_fmt(Tail(list), f2)

Panic(f) == IF f.res = "Ok" THEN [f EXCEPT !.res = "Panic"] ELSE f

Fields_fmt(fields, f) ==
    CASE fields.style = "Named" ->
            IF fields.list = <<>> THEN Panic(f)
            ELSE LET h == block_head(f)
                 IN block_tail(indent_leave(h,
                        named_fields_fmt(fields.list, indent_enter(h))))
      [] fields.style = "Tuple" ->
            IF fields.list = <<>> THEN Panic(f)
            ELSE write(write(write(f, <<"(">>), join_tys(fields.list, 1)), <<")">>)
      [] OTHER -> f

\* Struct
Struct_new(name) == [kind |-> "Struct", type_def |-> TypeDef_new(name),
                     fields |-> Fields_Empty]

\* Struct::set_fields
Struct_set_fields(st, fields) == [st EXCEPT !.fields = fields]

Struct_push_named_field(st, field) ==
    [st EXCEPT !.fields = Fields_push_named(@, field)]

Struct_push_tuple_field(st, ty) ==
    [st EXCEPT !.fields = Fields_push_tuple(@, ty)]

Struct_fmt(st, f) ==
    LET f1 == fmt_head(st.type_def, "struct", f)
        f2 == Fields_fmt(st.fields, f1)
    IN IF st.fields.style \in {"Empty", "Tuple"} THEN write(f2, <<";", NL>>) ELSE f2

\* Function; lints, attributes, generics, arguments, return type and bounds
\* stay as new() leaves them.
Function_new(name) == [kind |-> "Function", name |-> name, vis |-> Private,
                       doc |-> None, body |-> <<>>]

\* Function::set_vis
Function_set_vis(fn, vis) == [fn EXCEPT !.vis = vis]

Function_push_line(fn, line) == [fn EXCEPT !.body = Append(@, Body_String(line))]

\* (not the code: a function with no body written as an empty block)
Function_fmt_empty_block(fn, is_trait, f) ==
    LET f1 == OptDoc_fmt(fn.doc, f)
        f2 == IF is_trait
              THEN (IF fn.vis = Private THEN f1 ELSE Panic(f1))
              ELSE Vis_fmt(fn.vis, f1)
        f3 == write(f2, <<"fn ", fn.name, "(", ")">>)
    IN IF fn.body = <<>> /\ is_trait
       THEN write(f3, <<";", NL>>)
       ELSE LET h == block_head(f3)
            IN block_tail(indent_leave(h, Bodies_fmt(fn.body, indent_enter(h))))

\* (not the code: a trait member that is written with its visibility)
Function_fmt_vis_in_trait(fn, is_trait, f) ==
    LET f1 == OptDoc_fmt(fn.doc, f)
        f2 == Vis_fmt(fn.vis, f1)
        f3 == write(f2, <<"fn ", fn.name, "(", ")">>)
    IN IF fn.body = <<>>
       THEN (IF ~is_trait THEN Panic(f3) ELSE write(f3, <<";", NL>>))
       ELSE LET h == block_head(f3)
            IN block_tail(indent_leave(h, Bodies_fmt(fn.body, indent_enter(h))))

\* Function::fmt
Function_fmt(fn, is_trait, f) ==
    LET f1 == OptDoc_fmt(fn.doc, f)
        f2 == IF is_trait
              THEN (IF fn.vis = Private THEN f1 ELSE Panic(f1))
              ELSE Vis_fmt(fn.vis, f1)
        f3 == write(f2, <<"fn ", fn.name, "(", ")">>)
    IN IF fn.body = <<>>
       THEN (IF ~is_trait THEN Panic(f3) ELSE write(f3, <<";", NL>>))
       ELSE LET h == block_head(f3)
            IN block_tail(indent_leave(h, Bodies_fmt(fn.body, indent_enter(h))))

RECURSIVE functions_fmt(_, _, _, _, _)
functions_fmt(fns, i, sep_first, is_trait, f) ==
    IF i > Len(fns) THEN f
    ELSE LET f1 == IF i # 1 \/ sep_first THEN write(f, <<NL>>) ELSE f
         IN functions_fmt(fns, i + 1, sep_first, is_trait,
                          Function_fmt(fns[i], is_trait, f1))

\* Trait; parents and attributes stay empty, associated types have no bounds.
Trait_new(name) == [kind |-> "Trait", type_def |-> TypeDef_new(name),
                    associated_consts |-> <<>>, associated_types |-> <<>>,
                    functions |-> <<>>]

\* Trait::push_function
Trait_push_function(tr, fn) == [tr EXCEPT !.functions = Append(@, fn)]

RECURSIVE trait_consts_fmt(_, _)
trait_consts_fmt(csts, f) ==
    IF csts = <<>> THEN f
    ELSE trait_consts_fmt(Tail(csts),
            write(f, <<"const ", Head(csts).name, ": ", Head(csts).ty, ";", NL>>))

RECURSIVE trait_types_fmt(_, _)
trait_types_fmt(tys, f) ==
    IF tys = <<>> THEN f
    ELSE trait_types_fmt(Tail(tys), write(f, <<"type ", Head(tys).name, ";", NL>>))

Trait_body(tr, f) ==
    LET f1 == trait_consts_fmt(tr.associated_consts, f)
        f2 == trait_types_fmt(tr.associated_types, f1)
    IN functions_fmt(tr.functions, 1,
                     tr.associated_types # <<>> \/ tr.associated_consts # <<>>,
                     TRUE, f2)

Trait_fmt(tr, f) ==
    LET h == block_head(fmt_head(tr.type_def, "trait", f))
    IN block_tail(indent_leave(h, Trait_body(tr, indent_enter(h))))

\* Impl; generics, impl_trait, bounds and macros stay empty.
Impl_new(target) == [kind |-> "Impl", target |-> target,
                     associated_consts |-> <<>>, associated_types |-> <<>>,
                     functions |-> <<>>]

\* Impl::push_function
Impl_push_function(im, fn) == [im EXCEPT !.functions = Append(@, fn)]

RECURSIVE impl_consts_fmt(_, _)
impl_consts_fmt(csts, f) ==
    IF csts = <<>> THEN f
    ELSE LET c == Head(csts)
         IN IF c.concrete_value = None THEN Panic(f)
            ELSE impl_consts_fmt(Tail(csts),
                    write(Vis_fmt(c.concrete_vis, f),
                          <<"const ", c.name, ": ", c.ty, " = ", c.concrete_value[1],
                            ";", NL>>))

RECURSIVE impl_types_fmt(_, _)
impl_types_fmt(tys, f) ==
    IF tys = <<>> THEN f
    ELSE LET t == Head(tys)
         IN IF t.concrete_ty = None THEN Panic(f)
            ELSE impl_types_fmt(Tail(tys),
                    write(f, <<"type ", t.name, " = ", t.concrete_ty[1], ";", NL>>))

Impl_body(im, f) ==
    LET f1 == impl_consts_fmt(im.associated_consts, f)
        f2 == impl_types_fmt(im.associated_types, f1)
    IN functions_fmt(im.functions, 1, im.associated_types # <<>>, FALSE, f2)

Impl_fmt(im, f) ==
    LET h == block_head(write(f, <<"impl", SP, im.target>>))
    IN block_tail(indent_leave(h, Impl_body(im, indent_enter(h))))

\* Enum and Variant; annotations stay empty.
Variant_new(name) == [name |-> name, fields |-> Fields_Empty]

Variant_fmt(v, f) ==
    write(Fields_fmt(v.fields, write(f, <<v.name>>)), <<",", NL>>)

RECURSIVE variants_fmt(_, _)
variants_fmt(vs, f) ==
    IF vs = <<>> THEN f ELSE variants_fmt(Tail(vs), Variant_fmt(Head(vs), f))

Enum_new(name) == [kind |-> "Enum", type_def |-> TypeDef_new(name), variants |-> <<>>]

Enum_push_variant(en, v) == [en EXCEPT !.variants = Append(@, v)]

Enum_fmt(en, f) ==
    LET h == block_head(fmt_head(en.type_def, "enum", f))
    IN block_tail(indent_leave(h, variants_fmt(en.variants, indent_enter(h))))

\* TypeAlias
TypeAlias_new(name, target) == [kind |-> "TypeAlias", type_def |-> TypeDef_new(name),
                                ty |-> target]

TypeAlias_fmt(ta, f) ==
    LET f1 == fmt_head(ta.type_def, "type", f)
        f2 == write(f1, <<" = ">>)
        f3 == write(f2, <<ta.ty>>)
    IN write(f3, <<";">>)

\* LineBreak::fmt: write!(fmt, "")
LineBreak_new == [kind |-> "LineBreak"]

\* (not the code: a line break that writes a newline of its own)
LineBreak_fmt_newline(lb, f) == write(f, <<NL>>)

LineBreak_fmt(lb, f) == write(f, <<>>)

Raw(val) == [kind |-> "Raw", val |-> val]

\* Module; attributes and lints stay empty.
Module_new(name) == [kind |-> "Module", name |-> name, vis |-> Private,
                     doc |-> None, scope |-> Scope_new]

RECURSIVE Scope_fmt(_, _)

Module_fmt(m, f) ==
    LET f1 == OptDoc_fmt(m.doc, f)
        f2 == Vis_fmt(m.vis, f1)
        f3 == write(f2, <<"mod ", m.name>>)
        h == block_head(f3)
    IN block_tail(indent_leave(h, Scope_fmt(m.scope, indent_enter(h))))

\* The match of Scope::fmt
Item_fmt(item, f) ==
    CASE item.kind = "Module" -> Module_fmt(item, f)
      [] item.kind = "Struct" -> Struct_fmt(item, f)
      [] item.kind = "Function" -> Function_fmt(item, FALSE, f)
      [] item.kind = "Trait" -> Trait_fmt(item, f)
      [] item.kind = "Enum" -> Enum_fmt(item, f)
      [] item.kind = "Impl" -> Impl_fmt(item, f)
      [] item.kind = "Raw" -> write(f, item.val \o <<NL>>)
      [] item.kind = "TypeAlias" -> TypeAlias_fmt(item, f)
      [] item.kind = "LineBreak" -> LineBreak_fmt(item, f)

RECURSIVE items_fmt(_, _, _)
items_fmt(items, i, f) ==
    IF i > Len(items) THEN f
    ELSE LET f1 == IF i # 1 THEN write(f, <<NL>>) ELSE f
         IN items_fmt(items, i + 1, Item_fmt(items[i], f1))

\* (not the code: the items before the imports)
Scope_fmt_items_first(s, f) ==
    LET f1 == OptDoc_fmt(s.doc, f)
        f2 == items_fmt(s.items, 1, f1)
        f3 == fmt_imports(s, f2)
    IN IF s.imports # <<>> THEN write(f3, <<NL>>) ELSE f3

\* Scope::fmt
Scope_fmt(s, f) ==
    LET f1 == OptDoc_fmt(s.doc, f)
        f2 == fmt_imports(s, f1)
        f3 == IF s.imports # <<>> THEN write(f2, <<NL>>) ELSE f2
    IN items_fmt(s.items, 1, f3)

\* impl Display for Scope: the buffer of the render pass, and the text
\* returned; unwrap() panics on Err.
Scope_render(s) == Scope_fmt(s, Formatter_new)

\* (not the code: every trailing newline trimmed)
trim_newlines(ret) ==
    LET text == {i \in 1..Len(ret) : ret[i] # NL}
    IN SubSeq(ret, 1, IF text = {} THEN 0
                      ELSE CHOOSE i \in text : \A j \in text : j <= i)

\* if ret.as_bytes().last() == Some(&b'\n') { ret.pop(); }
trim_newline(ret) == IF ret # <<>> /\ Last(ret) = NL THEN Front(ret) ELSE ret

Scope_to_string(s) ==
    LET r == Scope_render(s)
    IN IF r.res # "Ok" THEN [panicked |-> TRUE, buf |-> <<>>, text |-> <<>>]
       ELSE [panicked |-> FALSE, buf |-> r.output, text |-> trim_newline(r.output)]

\* ------------------------------------------------------------ the inputs
Paths == {"bar", "baz"}
Tys == {<<"Bar">>, <<"baz", "Baz">>, <<"baz", "Qux">>}
Viss == {Private, Pub, Custom("pub(in a)")}

ScopePaths == {"bar"}
ScopeTys == {<<"Bar">>, <<"Baz">>}
ScopeViss == {Private}

Docs == {<<"A scope.">>, <<"One.", NL, NL, "Two.">>}

StructInputs == {Struct_new("Foo"),
                 Struct_push_named_field(Struct_new("Bar"), Field_new("one", "usize"))}
FunctionInputs == {Function_new("f"),
                   Function_push_line(Function_new("g"), <<"let x = 1;">>)}
ModuleInputs == {Module_new("m"),
                 [Module_new("n") EXCEPT !.scope =
                    [push_import(Scope_new, "bar", <<"Bar">>, Private)
                        EXCEPT !.items = <<Struct_new("Foo")>>]]}
RawInputs == {<<"// raw">>}
Lines == {<<"a;">>, <<"b;", NL, "c;">>}

NoCall == [op |-> "none"]

\* ------------------------------------------------------------- files
\* A path is the text it was built from, in pieces: names, "/" and ".".
\* Path::components: separators and trailing slashes are normalized away,
\* and so is every "." that is not the first piece.
components(p) ==
    LET keep(i) == p[i] # "/" /\ (p[i] # "." \/ i = 1)
        F[i \in 0..Len(p)] ==
            IF i = 0 THEN <<>>
            ELSE IF keep(i) THEN Append(F[i - 1], p[i]) ELSE F[i - 1]
    IN F[Len(p)]

\* PartialEq for Path: the components are compared
path_eq(p, q) == components(p) = components(q)

\* Path::to_str: the text as it was given
to_str(p) == Some(p)

\* Path::join with a relative path
join(dir, p) == dir \o <<"/">> \o p

\* File::new
File_new(path) == [path |-> path, scope |-> Scope_new]

OutDir == <<"out">>

\* The directory a program writes into: it exists and is empty.
Disk_new == [dirs |-> {OutDir}, files |-> {}]

\* The File::generate calls that may be under way at the same time, each
\* idle until it is made.
Callers == {1, 2}
Idle == [pc |-> "idle"]

\* Library::new
Library_new(name, path) ==
    [name |-> name, path |-> path, lib |-> File_new(<<"lib.rs">>), files |-> <<>>]

\* The state a program starts in: an empty scope, an empty block and a
\* formatter over an empty buffer; no call made yet.
Init ==
    /\ scope = Scope_new
    /\ last = NoCall
    /\ log = <<>>
    /\ block = Block_new
    /\ fmtr = Formatter_new
    /\ file = File_new(<<"a.rs">>)
    /\ disk = Disk_new
    /\ library = Library_new("l", OutDir)
    /\ running = [i \in Callers |-> Idle]

\* ------------------------------------------------------ the scope builder
\* Scope::push_import, each call logged with the number of items the scope
\* held when it was made.
PushImportOf(max, paths, tys, viss) ==
    /\ Len(log) < max
    /\ \E path \in paths, ty \in tys, vis \in viss :
        /\ scope' = push_import(scope, path, ty, vis)
        /\ last' = [op |-> "push_import", path |-> path, ty |-> ty, vis |-> vis]
        /\ log' = Append(log, [path |-> path, ty |-> ty, vis |-> vis,
                               items_before |-> Len(scope.items)])
    /\ UNCHANGED <<block, fmtr, file, disk, library, running>>

PushImport == PushImportOf(MaxImports, Paths, Tys, Viss)

ScopePushImport == PushImportOf(MaxScopeImports, ScopePaths, ScopeTys, ScopeViss)

\* Scope::set_doc
SetDoc ==
    /\ scope.doc = None
    /\ \E d \in Docs :
        /\ scope' = [scope EXCEPT !.doc = Some(d)]
        /\ last' = [op |-> "set_doc"]
    /\ UNCHANGED <<log, block, fmtr, file, disk, library, running>>

\* self.items.push(..)
push_item(s, item) == [s EXCEPT !.items = Append(@, item)]

PushItemOf(op, inputs) ==
    /\ Len(scope.items) < MaxItems
    /\ \E item \in inputs :
        /\ scope' = push_item(scope, item)
        /\ last' = [op |-> op]
    /\ UNCHANGED <<log, block, fmtr, file, disk, library, running>>

\* Scope::get_module
get_module(s, name) ==
    LET found == SelectSeq(s.items, LAMBDA it : it.kind = "Module" /\ it.name = name)
    IN IF found = <<>> THEN None ELSE Some(found[1])

\* Scope::push_module: the assert stops a module whose name is taken
PushModule ==
    /\ Len(scope.items) < MaxItems
    /\ \E m \in ModuleInputs :
        /\ get_module(scope, m.name) = None
        /\ scope' = push_item(scope, m)
        /\ last' = [op |-> "push_module"]
    /\ UNCHANGED <<log, block, fmtr, file, disk, library, running>>

PushStruct == PushItemOf("push_struct", StructInputs)
PushFunction == PushItemOf("push_function", FunctionInputs)
PushTrait == PushItemOf("push_trait", {Trait_new("T")})
PushEnum == PushItemOf("push_enum", {Enum_push_variant(Enum_new("E"), Variant_new("A"))})
PushImpl == PushItemOf("push_impl", {Impl_new("Foo")})
PushRaw == PushItemOf("raw", {Raw(r) : r \in RawInputs})
PushTypeAlias == PushItemOf("push_type_alias", {TypeAlias_new("A", "u8")})
PushLineBreak == PushItemOf("push_line_break", {LineBreak_new})

\* Scope::to_string (Display for Scope); `last` keeps the buffer of the render
\* pass next to the text returned.
ToString ==
    /\ last' = [op |-> "to_string", ret |-> Scope_to_string(scope)]
    /\ UNCHANGED <<scope, log, block, fmtr, file, disk, library, running>>

\* (not the code: a render that takes the items out of the scope)
ToStringConsuming ==
    /\ Len(log) < MaxRenders
    /\ last' = [op |-> "to_string", ret |-> Scope_to_string(scope)]
    /\ log' = Append(log, [scope |-> scope, ret |-> Scope_to_string(scope)])
    /\ scope' = [scope EXCEPT !.items = <<>>]
    /\ UNCHANGED <<block, fmtr, file, disk, library, running>>

\* Scope::to_string through &self, each call logged with the scope it was
\* made on and the text it returned.
ToStringLogged ==
    /\ Len(log) < MaxRenders
    /\ last' = [op |-> "to_string", ret |-> Scope_to_string(scope)]
    /\ log' = Append(log, [scope |-> scope, ret |-> Scope_to_string(scope)])
    /\ UNCHANGED <<scope, block, fmtr, file, disk, library, running>>

\* Imports alone.
NextI == PushImport \/ ToString

SpecImports == Init /\ [][NextI]_vars

\* Items of every kind, no imports.
NextItems ==
    \/ PushModule \/ PushStruct \/ PushFunction \/ PushTrait \/ PushEnum
    \/ PushImpl \/ PushRaw \/ PushTypeAlias \/ PushLineBreak \/ ToString

SpecItems == Init /\ [][NextItems]_vars

\* A scope with documentation, imports and items, in any order of the calls.
Next ==
    \/ SetDoc \/ ScopePushImport \/ PushStruct \/ PushRaw \/ PushTypeAlias
    \/ PushLineBreak \/ ToString

Spec == Init /\ [][Next]_vars

\* Renders between the calls that build the scope.
NextRender ==
    SetDoc \/ PushStruct \/ PushRaw \/ PushTypeAlias \/ PushLineBreak \/ ToStringLogged

SpecRender == Init /\ [][NextRender]_vars

\* ------------------------------------------- declarations built in place
\* new_struct, new_trait, .. push the declaration and return a reference to it:
\* the builder calls that follow work on the last item of the scope.
LastItem(s) == s.items[Len(s.items)]

WithLastItem(s, item) == [s EXCEPT !.items[Len(s.items)] = item]

\* A panic ends the program: no call follows it.
Aborted ==
    \/ "panic" \in DOMAIN last /\ last.panic
    \/ last.op = "to_string" /\ last.ret.panicked

FieldsInputs == {Fields_Empty,
                 [style |-> "Named", list |-> <<>>],
                 [style |-> "Tuple", list |-> <<>>],
                 [style |-> "Tuple", list |-> <<"u8">>]}
FieldInputs == {Field_new("one", "usize"), Field_new("two", "String")}
TupleInputs == {"u8", "String"}

\* Scope::new_struct
NewStruct ==
    /\ ~Aborted
    /\ Len(scope.items) < MaxDecls
    /\ scope' = push_item(scope, Struct_new("Foo"))
    /\ last' = [op |-> "new_struct"]
    /\ UNCHANGED <<log, block, fmtr, file, disk, library, running>>

\* Struct::set_fields on the struct last added
StructSetFields ==
    /\ ~Aborted
    /\ scope.items # <<>> /\ LastItem(scope).kind = "Struct"
    /\ \E fields \in FieldsInputs :
        /\ scope' = WithLastItem(scope, Struct_set_fields(LastItem(scope), fields))
        /\ last' = [op |-> "set_fields"]
    /\ UNCHANGED <<log, block, fmtr, file, disk, library, running>>

\* Struct::push_named_field on the struct last added; the panic of
\* Fields::push_named leaves the scope as it was.
StructPushNamedField ==
    /\ ~Aborted
    /\ scope.items # <<>> /\ LastItem(scope).kind = "Struct"
    /\ Len(LastItem(scope).fields.list) < MaxFields
    /\ \E field \in FieldInputs :
        LET st == Struct_push_named_field(LastItem(scope), field)
        IN IF st.fields.style = "Panic"
           THEN /\ scope' = scope
                /\ last' = [op |-> "push_named_field", panic |-> TRUE, arg |-> field]
           ELSE /\ scope' = WithLastItem(scope, st)
                /\ last' = [op |-> "push_named_field", panic |-> FALSE, arg |-> field]
    /\ UNCHANGED <<log, block, fmtr, file, disk, library, running>>

\* Struct::push_tuple_field on the struct last added
StructPushTupleField ==
    /\ ~Aborted
    /\ scope.items # <<>> /\ LastItem(scope).kind = "Struct"
    /\ Len(LastItem(scope).fields.list) < MaxFields
    /\ \E ty \in TupleInputs :
        LET st == Struct_push_tuple_field(LastItem(scope), ty)
        IN IF st.fields.style = "Panic"
           THEN /\ scope' = scope
                /\ last' = [op |-> "push_tuple_field", panic |-> TRUE, arg |-> ty]
           ELSE /\ scope' = WithLastItem(scope, st)
                /\ last' = [op |-> "push_tuple_field", panic |-> FALSE, arg |-> ty]
    /\ UNCHANGED <<log, block, fmtr, file, disk, library, running>>

\* Scope::to_string of a program that has not panicked
DeclToString == ~Aborted /\ ToString

NextStruct ==
    \/ NewStruct
    \/ StructSetFields
    \/ StructPushNamedField
    \/ StructPushTupleField
    \/ DeclToString

SpecStruct == Init /\ [][NextStruct]_vars

\* Scope::new_function: a function with no body yet
NewFunction ==
    /\ ~Aborted
    /\ Len(scope.items) < MaxDecls
    /\ scope' = push_item(scope, Function_new("f"))
    /\ last' = [op |-> "new_function"]
    /\ UNCHANGED <<log, block, fmtr, file, disk, library, running>>

\* Function::push_line on the function last added
FunctionPushLine ==
    /\ ~Aborted
    /\ scope.items # <<>> /\ LastItem(scope).kind = "Function"
    /\ Len(LastItem(scope).body) < MaxBody
    /\ scope' = WithLastItem(scope, Function_push_line(LastItem(scope), <<"let x = 1;">>))
    /\ last' = [op |-> "push_line"]
    /\ UNCHANGED <<log, block, fmtr, file, disk, library, running>>

\* Scope::new_trait
NewTrait ==
    /\ ~Aborted
    /\ Len(scope.items) < MaxDecls
    /\ scope' = push_item(scope, Trait_new("T"))
    /\ last' = [op |-> "new_trait"]
    /\ UNCHANGED <<log, block, fmtr, file, disk, library, running>>

\* Scope::new_impl
NewImpl ==
    /\ ~Aborted
    /\ Len(scope.items) < MaxDecls
    /\ scope' = push_item(scope, Impl_new("Foo"))
    /\ last' = [op |-> "new_impl"]
    /\ UNCHANGED <<log, block, fmtr, file, disk, library, running>>

\* Trait::push_function on the trait last added
TraitPushFunction ==
    /\ ~Aborted
    /\ scope.items # <<>> /\ LastItem(scope).kind = "Trait"
    /\ Len(LastItem(scope).functions) < MaxFns
    /\ \E fn \in FunctionInputs :
        /\ scope' = WithLastItem(scope, Trait_push_function(LastItem(scope), fn))
        /\ last' = [op |-> "push_function"]
    /\ UNCHANGED <<log, block, fmtr, file, disk, library, running>>

\* Impl::push_function on the impl last added
ImplPushFunction ==
    /\ ~Aborted
    /\ scope.items # <<>> /\ LastItem(scope).kind = "Impl"
    /\ Len(LastItem(scope).functions) < MaxFns
    /\ \E fn \in FunctionInputs :
        /\ scope' = WithLastItem(scope, Impl_push_function(LastItem(scope), fn))
        /\ last' = [op |-> "push_function"]
    /\ UNCHANGED <<log, block, fmtr, file, disk, library, running>>

NextFn ==
    \/ NewFunction
    \/ FunctionPushLine
    \/ NewTrait
    \/ NewImpl
    \/ TraitPushFunction
    \/ ImplPushFunction
    \/ DeclToString

SpecFn == Init /\ [][NextFn]_vars

\* ------------------------------------------- functions with a visibility
FnViss == {Private, Pub}
TraitMembers == {Function_set_vis(Function_push_line(Function_new("t"), <<"a;">>), vis) :
                    vis \in {Private, Pub}}
ImplMembers == {Function_set_vis(Function_push_line(Function_new("g"), <<"a;">>), PubCrate)}

\* Function::set_vis on the function last added
FunctionSetVis ==
    /\ ~Aborted
    /\ scope.items # <<>> /\ LastItem(scope).kind = "Function"
    /\ \E vis \in FnViss :
        /\ scope' = WithLastItem(scope, Function_set_vis(LastItem(scope), vis))
        /\ last' = [op |-> "set_vis"]
    /\ UNCHANGED <<log, block, fmtr, file, disk, library, running>>

\* Trait::push_function, of a function built with with_vis
TraitPushMember ==
    /\ ~Aborted
    /\ scope.items # <<>> /\ LastItem(scope).kind = "Trait"
    /\ Len(LastItem(scope).functions) < MaxFns
    /\ \E fn \in TraitMembers :
        /\ scope' = WithLastItem(scope, Trait_push_function(LastItem(scope), fn))
        /\ last' = [op |-> "push_function"]
    /\ UNCHANGED <<log, block, fmtr, file, disk, library, running>>

\* Impl::push_function, of a function built with with_vis
ImplPushMember ==
    /\ ~Aborted
    /\ scope.items # <<>> /\ LastItem(scope).kind = "Impl"
    /\ Len(LastItem(scope).functions) < MaxFns
    /\ \E fn \in ImplMembers :
        /\ scope' = WithLastItem(scope, Impl_push_function(LastItem(scope), fn))
        /\ last' = [op |-> "push_function"]
    /\ UNCHANGED <<log, block, fmtr, file, disk, library, running>>

NextVis ==
    \/ NewFunction
    \/ FunctionPushLine
    \/ FunctionSetVis
    \/ NewTrait
    \/ NewImpl
    \/ TraitPushMember
    \/ ImplPushMember
    \/ DeclToString

SpecVis == Init /\ [][NextVis]_vars

\* --------------------------------------- members of a trait and an impl
\* AssociatedConst::new(..).with_concrete_value(..) and
\* AssociatedType::new(..).with_concrete_ty(..), which a trait and an impl
\* can both hold.
ConstInput == [name |-> "C", ty |-> "u8", concrete_value |-> Some("0"),
               concrete_vis |-> Private]
TypeInput == [name |-> "T", concrete_ty |-> Some("u8")]
Method == Function_push_line(Function_new("g"), <<"a;">>)

\* Trait::push_associated_const on the trait last added
TraitPushConst ==
    /\ ~Aborted
    /\ scope.items # <<>> /\ LastItem(scope).kind = "Trait"
    /\ LastItem(scope).associated_consts = <<>>
    /\ scope' = WithLastItem(scope,
                    [LastItem(scope) EXCEPT !.associated_consts = Append(@, ConstInput)])
    /\ last' = [op |-> "push_associated_const"]
    /\ UNCHANGED <<log, block, fmtr, file, disk, library, running>>

\* Trait::push_associated_type on the trait last added
TraitPushType ==
    /\ ~Aborted
    /\ scope.items # <<>> /\ LastItem(scope).kind = "Trait"
    /\ LastItem(scope).associated_types = <<>>
    /\ scope' = WithLastItem(scope,
                    [LastItem(scope) EXCEPT !.associated_types = Append(@, TypeInput)])
    /\ last' = [op |-> "push_associated_type"]
    /\ UNCHANGED <<log, block, fmtr, file, disk, library, running>>

\* Trait::push_function on the trait last added
TraitPushMethod ==
    /\ ~Aborted
    /\ scope.items # <<>> /\ LastItem(scope).kind = "Trait"
    /\ Len(LastItem(scope).functions) < MaxFns
    /\ scope' = WithLastItem(scope, Trait_push_function(LastItem(scope), Method))
    /\ last' = [op |-> "push_function"]
    /\ UNCHANGED <<log, block, fmtr, file, disk, library, running>>

\* Impl::push_associated_const on the impl last added
ImplPushConst ==
    /\ ~Aborted
    /\ scope.items # <<>> /\ LastItem(scope).kind = "Impl"
    /\ LastItem(scope).associated_consts = <<>>
    /\ scope' = WithLastItem(scope,
                    [LastItem(scope) EXCEPT !.associated_consts = Append(@, ConstInput)])
    /\ last' = [op |-> "push_associated_const"]
    /\ UNCHANGED <<log, block, fmtr, file, disk, library, running>>

\* Impl::push_associated_type on the impl last added
ImplPushType ==
    /\ ~Aborted
    /\ scope.items # <<>> /\ LastItem(scope).kind = "Impl"
    /\ LastItem(scope).associated_types = <<>>
    /\ scope' = WithLastItem(scope,
                    [LastItem(scope) EXCEPT !.associated_types = Append(@, TypeInput)])
    /\ last' = [op |-> "push_associated_type"]
    /\ UNCHANGED <<log, block, fmtr, file, disk, library, running>>

\* Impl::push_function on the impl last added
ImplPushMethod ==
    /\ ~Aborted
    /\ scope.items # <<>> /\ LastItem(scope).kind = "Impl"
    /\ Len(LastItem(scope).functions) < MaxFns
    /\ scope' = WithLastItem(scope, Impl_push_function(LastItem(scope), Method))
    /\ last' = [op |-> "push_function"]
    /\ UNCHANGED <<log, block, fmtr, file, disk, library, running>>

NextMembers ==
    \/ NewTrait
    \/ NewImpl
    \/ TraitPushConst
    \/ TraitPushType
    \/ TraitPushMethod
    \/ ImplPushConst
    \/ ImplPushType
    \/ ImplPushMethod
    \/ DeclToString

SpecMembers == Init /\ [][NextMembers]_vars

\* ------------------------------------------------------------- modules
\* (not the code: a push_module that does not look for the name)
Scope_push_module_unchecked(s, module) ==
    [panic |-> FALSE, scope |-> push_item(s, module)]

\* Scope::push_module: assert!(self.get_module(module.name()).is_none())
Scope_push_module(s, module) ==
    IF get_module(s, module.name) # None
    THEN [panic |-> TRUE, scope |-> s]
    ELSE [panic |-> FALSE, scope |-> push_item(s, module)]

\* Scope::new_module: the reference returned is to the last item
Scope_new_module(s, name) ==
    LET r == Scope_push_module(s, Module_new(name))
    IN [panic |-> r.panic, scope |-> r.scope,
        ref |-> IF r.panic THEN 0 ELSE Len(r.scope.items)]

\* Scope::get_module_mut: the first module item of that name (0: None)
get_module_mut(s, name) ==
    LET found == {i \in 1..Len(s.items) :
                    s.items[i].kind = "Module" /\ s.items[i].name = name}
    IN IF found = {} THEN 0 ELSE CHOOSE i \in found : \A j \in found : i <= j

\* (not the code: always a new module)
Scope_always_new_module(s, name) == Scope_new_module(s, name)

\* Scope::get_or_new_module
Scope_get_or_new_module(s, name) ==
    IF get_module(s, name) # None
    THEN [panic |-> get_module_mut(s, name) = 0, scope |-> s,
          ref |-> get_module_mut(s, name)]
    ELSE Scope_new_module(s, name)

ModuleNames == {"m", "n"}

\* Scope::push_module
ModPushModule ==
    /\ ~Aborted
    /\ Len(scope.items) < MaxDecls
    /\ \E m \in ModuleInputs :
        LET r == Scope_push_module(scope, m)
        IN /\ scope' = r.scope
           /\ last' = [op |-> "push_module", panic |-> r.panic, name |-> m.name]
    /\ UNCHANGED <<log, block, fmtr, file, disk, library, running>>

\* Scope::new_module
ModNewModule ==
    /\ ~Aborted
    /\ Len(scope.items) < MaxDecls
    /\ \E name \in ModuleNames :
        LET r == Scope_new_module(scope, name)
        IN /\ scope' = r.scope
           /\ last' = [op |-> "new_module", panic |-> r.panic, name |-> name,
                       ref |-> r.ref]
    /\ UNCHANGED <<log, block, fmtr, file, disk, library, running>>

\* Scope::get_or_new_module
ModGetOrNewModule ==
    /\ ~Aborted
    /\ \E name \in ModuleNames :
        /\ get_module(scope, name) # None \/ Len(scope.items) < MaxDecls
        /\ LET r == Scope_get_or_new_module(scope, name)
           IN /\ scope' = r.scope
              /\ last' = [op |-> "get_or_new_module", panic |-> r.panic,
                          name |-> name, ref |-> r.ref]
    /\ UNCHANGED <<log, block, fmtr, file, disk, library, running>>

\* The module the last call returned a reference to.
HasRef == ~Aborted /\ "ref" \in DOMAIN last /\ last.ref > 0

\* Module::push_module through the reference: into the module's own scope
RefPushModule ==
    /\ HasRef
    /\ Len(scope.items[last.ref].scope.items) < MaxDecls
    /\ \E name \in ModuleNames :
        LET r == Scope_push_module(scope.items[last.ref].scope, Module_new(name))
        IN /\ scope' = [scope EXCEPT !.items[last.ref].scope = r.scope]
           /\ last' = [op |-> "Module::push_module", panic |-> r.panic,
                       name |-> name, ref |-> last.ref]
    /\ UNCHANGED <<log, block, fmtr, file, disk, library, running>>

\* Module::push_import through the reference
RefPushImport ==
    /\ HasRef
    /\ scope.items[last.ref].scope.imports = <<>>
    /\ scope' = [scope EXCEPT !.items[last.ref].scope =
                    push_import(@, "bar", <<"Bar">>, Private)]
    /\ last' = [op |-> "Module::push_import", panic |-> FALSE, ref |-> last.ref]
    /\ UNCHANGED <<log, block, fmtr, file, disk, library, running>>

NextModule ==
    \/ ModPushModule
    \/ ModNewModule
    \/ ModGetOrNewModule
    \/ RefPushModule
    \/ RefPushImport
    \/ NewStruct
    \/ DeclToString

SpecModule == Init /\ [][NextModule]_vars

\* --------------------------------------------------- renaming a module
\* Module::set_name
Module_set_name(m, name) == [m EXCEPT !.name = name]

\* Scope::get_module_mut: a reference when a module of that name is there
GetModuleMut ==
    /\ ~Aborted
    /\ \E name \in ModuleNames :
        last' = [op |-> "get_module_mut", panic |-> FALSE, name |-> name,
                 ref |-> get_module_mut(scope, name)]
    /\ UNCHANGED <<scope, log, block, fmtr, file, disk, library, running>>

\* Module::set_name through the reference
RefSetName ==
    /\ HasRef
    /\ \E name \in ModuleNames :
        /\ scope' = [scope EXCEPT !.items[last.ref] = Module_set_name(@, name)]
        /\ last' = [op |-> "Module::set_name", panic |-> FALSE, name |-> name,
                    ref |-> last.ref]
    /\ UNCHANGED <<log, block, fmtr, file, disk, library, running>>

NextRename ==
    \/ ModPushModule
    \/ ModNewModule
    \/ ModGetOrNewModule
    \/ GetModuleMut
    \/ RefSetName
    \/ DeclToString

SpecRename == Init /\ [][NextRename]_vars

\* ------------------------------------------------------ writing a file
TrailingSlash(p) == Len(p) > 0 /\ p[Len(p)] = "/"

\* The place on the disk a path leads to.
Resolve(p) ==
    LET named(c) == c # "."
    IN SelectSeq(components(p), named)

Parent(r) == SubSeq(r, 1, Len(r) - 1)

FileAt(d, r) == {f \in d.files : f.at = r}

\* Path::exists: a directory is there, or a file and the path does not ask
\* for a directory
Path_exists(d, p) ==
    \/ Resolve(p) \in d.dirs
    \/ FileAt(d, Resolve(p)) # {} /\ ~TrailingSlash(p)

\* fs::File::create: fails when the system refuses, when the path names a
\* directory or when the directory to hold the file is missing; otherwise
\* the file is there and empty
fs_create(d, p, granted) ==
    IF ~granted \/ TrailingSlash(p) \/ Resolve(p) \in d.dirs
       \/ Parent(Resolve(p)) \notin d.dirs
    THEN [ok |-> FALSE, disk |-> d]
    ELSE [ok |-> TRUE,
          disk |-> [d EXCEPT !.files = {f \in @ : f.at # Resolve(p)}
                                        \cup {[at |-> Resolve(p), text |-> <<>>]}]]

\* Write::write_all: the system takes `taken` pieces of the text; an error
\* is returned when some are left
write_all(d, r, text, taken) ==
    LET n == IF taken < Len(text) THEN taken ELSE Len(text)
    IN [ok |-> n = Len(text),
        disk |-> [d EXCEPT !.files = {f \in @ : f.at # r}
                                      \cup {[at |-> r, text |-> SubSeq(text, 1, n)]}]]

\* File::generate; the scope is rendered once (s) and the text handed to
\* write_all
File_generate(f, out_dir, d, granted, taken) ==
    LET file_path == join(out_dir, f.path)
        generated(c, s) ==
            LET w == write_all(c.disk, Resolve(file_path), s.text, taken)
            IN IF Path_exists(d, file_path)
               THEN [ret |-> "FileAlreadyExists", disk |-> d]
               ELSE IF c.ok /\ s.panicked THEN [ret |-> "Panic", disk |-> c.disk]
               ELSE IF c.ok /\ ~w.ok
               THEN [ret |-> "FileGenerationFailed", disk |-> w.disk]
               ELSE IF c.ok THEN [ret |-> "Ok", disk |-> w.disk]
               ELSE [ret |-> "Ok", disk |-> d]
    IN CHOOSE out \in {generated(c, s) : c \in {fs_create(d, file_path, granted)},
                                         s \in {Scope_to_string(f.scope)}} : TRUE

FilePaths == {<<"a.rs">>, <<"b.rs">>, <<".", "/", "a.rs">>, <<"a.rs", "/">>,
              <<"sub", "/", "a.rs">>}

ScopeInputs == {Scope_new,
                [Scope_new EXCEPT !.doc = Some(<<"A scope.">>)],
                push_item(Scope_new, Struct_new("Foo"))}

\* File::set_path
FileSetPath ==
    /\ \E p \in FilePaths : file' = [file EXCEPT !.path = p]
    /\ last' = [op |-> "set_path"]
    /\ UNCHANGED <<scope, log, block, fmtr, disk, library, running>>

\* File::set_scope
FileSetScope ==
    /\ \E s \in ScopeInputs : file' = [file EXCEPT !.scope = s]
    /\ last' = [op |-> "set_scope"]
    /\ UNCHANGED <<scope, log, block, fmtr, disk, library, running>>

\* File::generate into the directory, the system granting or refusing the
\* creation and taking none, one or all of the pieces written
FileGenerate ==
    /\ \E granted \in BOOLEAN :
       \E taken \in {0, 1, Len(Scope_to_string(file.scope).text)} :
       \E r \in {File_generate(file, OutDir, disk, granted, taken)} :
        /\ disk' = r.disk
        /\ last' = [op |-> "generate", ret |-> r.ret]
    /\ UNCHANGED <<scope, log, block, fmtr, file, library, running>>

NextFile == FileSetPath \/ FileSetScope \/ FileGenerate

SpecFile == Init /\ [][NextFile]_vars

\* ------------------------------------------------------------ the library
LibRs == <<"lib.rs">>

\* IdHashMap::insert_unique, the key of a file being its path
insert_unique(files, f) ==
    IF \E i \in 1..Len(files) : path_eq(files[i].path, f.path)
    THEN [ok |-> FALSE, files |-> files]
    ELSE [ok |-> TRUE, files |-> Append(files, f)]

\* (not the code: a push_file that does not look for lib.rs)
Library_push_file_unreserved(lib, f) ==
    IF insert_unique(lib.files, f).ok
    THEN [ret |-> "Ok", library |-> [lib EXCEPT !.files = Append(@, f)]]
    ELSE [ret |-> "FileAlreadyExists", library |-> lib]

\* Library::push_file
Library_push_file(lib, f) ==
    IF to_str(f.path) = Some(LibRs)
    THEN [ret |-> "FileAlreadyExists", library |-> lib]
    ELSE IF ~insert_unique(lib.files, f).ok
    THEN [ret |-> "FileAlreadyExists", library |-> lib]
    ELSE [ret |-> "Ok",
          library |-> [lib EXCEPT !.files = insert_unique(@, f).files]]

LibPaths == {LibRs, <<"lib.rs", "/">>, <<".", "/", "lib.rs">>, <<"a.rs">>,
             <<"a.rs", "/">>, <<"b.rs">>}

\* File::set_path on a file not yet pushed
LibFileSetPath ==
    /\ \E p \in LibPaths : file' = [file EXCEPT !.path = p]
    /\ last' = [op |-> "set_path"]
    /\ UNCHANGED <<scope, log, block, fmtr, disk, library, running>>

\* Library::push_file of a copy of the file
LibPushFile ==
    /\ LET r == Library_push_file(library, file)
       IN /\ r.ret = "Ok" => Len(library.files) < MaxLibFiles
          /\ library' = r.library
          /\ last' = [op |-> "push_file", ret |-> r.ret]
    /\ UNCHANGED <<scope, log, block, fmtr, file, disk, running>>

NextLibrary == LibFileSetPath \/ FileSetScope \/ LibPushFile

SpecLibrary == Init /\ [][NextLibrary]_vars

\* ------------------------------------------------- generating a library
\* One attempt of Library::generate on the file at index i: the result of
\* File::generate and what the loop does with it.
generate_step(lib, d, env, i) ==
    CHOOSE out \in
        {[ret |-> r.ret, disk |-> r.disk] :
            r \in {File_generate(lib.files[i], lib.path, d,
                                 env[i].granted, env[i].taken)}} : TRUE

\* (not the code: a loop that goes on after a failure and reports the first)
RECURSIVE generate_all_from(_, _, _, _, _)
generate_all_from(lib, d, env, i, first) ==
    IF i > Len(lib.files)
    THEN [ret |-> IF first = "Ok" THEN "Ok" ELSE "FileGenerationFailed",
          inner |-> first, disk |-> d, attempted |-> i - 1]
    ELSE CHOOSE out \in
            {generate_all_from(lib, r.disk, env, i + 1,
                               IF first = "Ok" THEN r.ret ELSE first) :
                r \in {generate_step(lib, d, env, i)}} : TRUE

Library_generate_all(lib, d, env) == generate_all_from(lib, d, env, 1, "Ok")

\* The loop of Library::generate from index i on.
RECURSIVE generate_from(_, _, _, _)
generate_from(lib, d, env, i) ==
    IF i > Len(lib.files)
    THEN [ret |-> "Ok", inner |-> "Ok", disk |-> d, attempted |-> i - 1]
    ELSE CHOOSE out \in
            {IF r.ret = "Panic"
             THEN [ret |-> "Panic", inner |-> "Panic", disk |-> r.disk,
                   attempted |-> i]
             ELSE IF r.ret # "Ok"
             THEN [ret |-> "FileGenerationFailed", inner |-> r.ret,
                   disk |-> r.disk, attempted |-> i]
             ELSE generate_from(lib, r.disk, env, i + 1) :
                r \in {generate_step(lib, d, env, i)}} : TRUE

\* Library::generate; env[i] is what the system does at the i-th file
Library_generate(lib, d, env) == generate_from(lib, d, env, 1)

GenFiles ==
    {[path |-> <<"a.rs">>, scope |-> [Scope_new EXCEPT !.doc = Some(<<"A scope.">>)]],
     [path |-> <<".", "/", "a.rs">>, scope |-> Scope_new],
     [path |-> <<"b.rs">>, scope |-> push_item(Scope_new, Raw(<<"// raw">>))],
     [path |-> <<"sub", "/", "a.rs">>, scope |-> Scope_new]}

\* What the system does at the files of one generate call: every creation
\* granted and every write taken whole, but for at most one file, whose
\* creation is refused or whose write is cut short.
Granted == [granted |-> TRUE, taken |-> 99]
Faults == {[granted |-> FALSE, taken |-> 99], [granted |-> TRUE, taken |-> 0]}
Envs(n) ==
    {[i \in 1..n |-> Granted]}
        \cup {[i \in 1..n |-> IF i = k THEN fault ELSE Granted] :
                k \in 1..n, fault \in Faults}

\* Library::push_file of a file built before
GenPushFile ==
    /\ \E f \in GenFiles :
        \E r \in {Library_push_file(library, f)} :
            /\ r.ret = "Ok" => Len(library.files) < MaxLibFiles
            /\ library' = r.library
            /\ last' = [op |-> "push_file", ret |-> r.ret]
    /\ UNCHANGED <<scope, log, block, fmtr, file, disk, running>>

\* Library::generate
LibGenerate ==
    /\ \E env \in Envs(Len(library.files)) :
        \E r \in {Library_generate(library, disk, env)} :
            /\ disk' = r.disk
            /\ last' = [op |-> "Library::generate", ret |-> r.ret,
                        inner |-> r.inner, env |-> env]
    /\ UNCHANGED <<scope, log, block, fmtr, file, library, running>>

NextLibGen == GenPushFile \/ LibGenerate

SpecLibGen == Init /\ [][NextLibGen]_vars

\* ------------------------------------------ generate calls interleaved
\* File::generate step by step, for calls made on files whose destination
\* is the same; another writer may create the destination at any moment.
RaceFiles ==
    {[path |-> <<"a.rs">>, scope |-> [Scope_new EXCEPT !.doc = Some(<<"A scope.">>)]],
     [path |-> <<".", "/", "a.rs">>, scope |-> push_item(Scope_new, Raw(<<"// raw">>))]}

OtherText == <<"// other">>

\* the call is made: out_dir.join(self.path)
CallGenerate(i) ==
    /\ running[i].pc = "idle"
    /\ \E f \in RaceFiles :
        running' = [running EXCEPT ![i] =
                    [pc |-> "exists", file |-> f, file_path |-> join(OutDir, f.path),
                     ret |-> "none"]]
    /\ last' = [op |-> "generate", caller |-> i]
    /\ UNCHANGED <<scope, log, block, fmtr, file, disk, library>>

\* if file_path.exists() { return Err(FileAlreadyExists) }
CallExists(i) ==
    /\ running[i].pc = "exists"
    /\ running' = [running EXCEPT ![i] =
                    IF Path_exists(disk, running[i].file_path)
                    THEN [@ EXCEPT !.pc = "done", !.ret = "FileAlreadyExists"]
                    ELSE [@ EXCEPT !.pc = "create"]]
    /\ last' = [op |-> "exists", caller |-> i]
    /\ UNCHANGED <<scope, log, block, fmtr, file, disk, library>>

\* fs::File::create(file_path): an Err is skipped by the `if let Ok`
CallCreate(i) ==
    /\ running[i].pc = "create"
    /\ \E granted \in BOOLEAN :
       \E c \in {fs_create(disk, running[i].file_path, granted)} :
        /\ disk' = c.disk
        /\ running' = [running EXCEPT ![i] =
                        IF c.ok THEN [@ EXCEPT !.pc = "write"]
                        ELSE [@ EXCEPT !.pc = "done", !.ret = "Ok"]]
    /\ last' = [op |-> "create", caller |-> i]
    /\ UNCHANGED <<scope, log, block, fmtr, file, library>>

\* file.write_all(self.scope.to_string().as_bytes())
CallWrite(i) ==
    /\ running[i].pc = "write"
    /\ \E s \in {Scope_to_string(running[i].file.scope)} :
       \E taken \in {0, Len(s.text)} :
       \E w \in {write_all(disk, Resolve(running[i].file_path), s.text, taken)} :
        /\ disk' = w.disk
        /\ running' = [running EXCEPT ![i] =
                        [@ EXCEPT !.pc = "done",
                                  !.ret = IF w.ok THEN "Ok" ELSE "FileGenerationFailed"]]
    /\ last' = [op |-> "write_all", caller |-> i]
    /\ UNCHANGED <<scope, log, block, fmtr, file, library>>

\* Another writer creates the destination, when it is not there.
OtherWriter ==
    /\ ~Path_exists(disk, join(OutDir, <<"a.rs">>))
    /\ disk' = [disk EXCEPT !.files =
                    @ \cup {[at |-> Resolve(join(OutDir, <<"a.rs">>)), text |-> OtherText]}]
    /\ last' = [op |-> "other writer"]
    /\ UNCHANGED <<scope, log, block, fmtr, file, library, running>>

NextRace ==
    \/ \E i \in Callers :
        CallGenerate(i) \/ CallExists(i) \/ CallCreate(i) \/ CallWrite(i)
    \/ OtherWriter

SpecRace == Init /\ [][NextRace]_vars

\* ------------------------------------------------------ the block builder
RECURSIVE Depth(_)
Depth(b) ==
    LET inner == {i \in 1..Len(b.body) : b.body[i].kind = "Block"}
        depths == {Depth(b.body[i].block) : i \in inner}
    IN 1 + (IF depths = {} THEN 0 ELSE CHOOSE d \in depths : \A e \in depths : e <= d)

\* Block::push_line
BlockPushLine ==
    /\ Len(block.body) < MaxBody
    /\ \E line \in Lines :
        /\ block' = Block_push_line(block, line)
        /\ last' = [op |-> "push_line"]
    /\ UNCHANGED <<scope, log, fmtr, file, disk, library, running>>

\* Block::push_block: the block built so far goes into an outer block, which
\* is the one built from then on.
BlockPushBlock ==
    /\ Depth(block) < MaxNest
    /\ \E outer \in {Block_new, Block_push_line(Block_new, <<"a;">>)} :
        /\ block' = Block_push_block(outer, block)
        /\ last' = [op |-> "push_block"]
    /\ UNCHANGED <<scope, log, fmtr, file, disk, library, running>>

\* Block::fmt into a formatter over an empty buffer
BlockFmt ==
    /\ last' = [op |-> "Block::fmt", ret |-> Block_fmt(block, Formatter_new)]
    /\ UNCHANGED <<scope, log, block, fmtr, file, disk, library, running>>

NextBlock == BlockPushLine \/ BlockPushBlock \/ BlockFmt

SpecBlock == Init /\ [][NextBlock]_vars

\* ------------------------------------------------- the Formatter's callers
\* A body_fn given to Formatter::block or Formatter::indent: a sequence of
\* steps, each followed by `?`: a write, a failure (Err(fmt::Error)), or a
\* nested block or indent with its own body.
StepWrite(text) == [op |-> "write", text |-> text]
StepFail == [op |-> "fail"]
StepBlock(body) == [op |-> "block", body |-> body]
StepIndent(body) == [op |-> "indent", body |-> body]

RECURSIVE run_body(_, _)
run_body(body, f) ==
    IF body = <<>> \/ f.res # "Ok" THEN f
    ELSE LET st == Head(body)
             g == CASE st.op = "write" -> write(f, st.text)
                    [] st.op = "fail" -> [f EXCEPT !.res = "Err"]
                    [] st.op = "block" ->
                            block_tail(indent_leave(block_head(f),
                                run_body(st.body, indent_enter(block_head(f)))))
                    [] st.op = "indent" ->
                            indent_leave(f, run_body(st.body, indent_enter(f)))
         IN run_body(Tail(body), g)

Bodies == {<<>>,
           <<StepWrite(<<"x;", NL>>)>>,
           <<StepFail>>,
           <<StepWrite(<<"x;", NL>>), StepFail, StepWrite(<<"y;", NL>>)>>,
           <<StepBlock(<<StepWrite(<<"x;", NL>>)>>)>>,
           <<StepBlock(<<StepIndent(<<StepFail>>)>>), StepWrite(<<"y;", NL>>)>>,
           <<StepIndent(<<StepBlock(<<>>), StepWrite(<<"x;", NL>>)>>)>>}

\* The caller keeps the formatter after a call, whatever the call returned.
Returned(f) == [f EXCEPT !.res = "Ok"]

FmtWrite ==
    /\ Len(log) < MaxFmtOps
    /\ \E text \in {<<"fn f()">>, <<"z;", NL>>, <<>>} :
        /\ fmtr' = write(fmtr, text)
        /\ last' = [op |-> "write", text |-> text, ret |-> "Ok"]
        /\ log' = Append(log, "write")
    /\ UNCHANGED <<scope, block, file, disk, library, running>>

FmtBlock ==
    /\ Len(log) < MaxFmtOps
    /\ \E body \in Bodies :
        LET h == block_head(fmtr)
            r == block_tail(indent_leave(h, run_body(body, indent_enter(h))))
        IN /\ fmtr' = Returned(r)
           /\ last' = [op |-> "block", body |-> body, ret |-> r.res,
                       level_before |-> fmtr.indent_level]
           /\ log' = Append(log, "block")
    /\ UNCHANGED <<scope, block, file, disk, library, running>>

FmtIndent ==
    /\ Len(log) < MaxFmtOps
    /\ \E body \in Bodies :
        LET r == indent_leave(fmtr, run_body(body, indent_enter(fmtr)))
        IN /\ fmtr' = Returned(r)
           /\ last' = [op |-> "indent", body |-> body, ret |-> r.res,
                       level_before |-> fmtr.indent_level]
           /\ log' = Append(log, "indent")
    /\ UNCHANGED <<scope, block, file, disk, library, running>>

NextFormatter == FmtWrite \/ FmtBlock \/ FmtIndent

SpecFormatter == Init /\ [][NextFormatter]_vars

\* ------------------------------------------------ the import table set
\* The tables a caller can hand to set_imports: no path, a path with no
\* name, a path with one name, and a path with no name before one with a name.
BarEntry == [ty |-> "Bar", import |-> Import_new("bar", "Bar")]
ImportTables == {<<>>,
                 <<[path |-> "bar", tys |-> <<>>]>>,
                 <<[path |-> "bar", tys |-> <<BarEntry>>]>>,
                 <<[path |-> "baz", tys |-> <<>>],
                   [path |-> "bar", tys |-> <<BarEntry>>]>>}

\* Scope::set_imports
Scope_set_imports(s, imports) == [s EXCEPT !.imports = imports]

SetImports ==
    /\ \E imports \in ImportTables :
        /\ scope' = Scope_set_imports(scope, imports)
        /\ last' = [op |-> "set_imports"]
    /\ UNCHANGED <<log, block, fmtr, file, disk, library, running>>

\* Scope::imports_mut, and on the table it returns entry(path).or_default()
ImportsMutEntry ==
    /\ \E path \in Paths :
        /\ scope' = [scope EXCEPT !.imports = or_default(@, path)]
        /\ last' = [op |-> "imports_mut"]
    /\ UNCHANGED <<log, block, fmtr, file, disk, library, running>>

\* Scope::push_module of a module that holds imports and no item
PushImportModule ==
    /\ Len(scope.items) < MaxItems
    /\ \E imports \in ImportTables :
        /\ get_module(scope, "m") = None
        /\ scope' = push_item(scope, [Module_new("m") EXCEPT
                                        !.scope = Scope_set_imports(Scope_new, imports)])
        /\ last' = [op |-> "push_module"]
    /\ UNCHANGED <<log, block, fmtr, file, disk, library, running>>

NextSection ==
    \/ SetImports \/ ImportsMutEntry \/ ScopePushImport \/ PushImportModule
    \/ PushRaw \/ ToString

SpecSection == Init /\ [][NextSection]_vars

\* ---------------------------------------------------- inside a body_fn
\* The writes a body_fn makes through the formatter, one at a time, with the
\* entry into and the return from Formatter::indent around them.
WriterTexts == {<<>>, <<"">>, <<NL>>, <<"x;">>, <<"x;", NL>>, <<"a", NL, NL, "b">>}

WriterWrite ==
    /\ Len(log) < MaxWrites
    /\ \E text \in WriterTexts :
        /\ fmtr' = write(fmtr, text)
        /\ last' = [op |-> "write_str", text |-> text]
    /\ log' = Append(log, "write_str")
    /\ UNCHANGED <<scope, block, file, disk, library, running>>

WriterEnter ==
    /\ Len(log) < MaxWrites
    /\ fmtr' = indent_enter(fmtr)
    /\ last' = [op |-> "indent: enter"]
    /\ log' = Append(log, "enter")
    /\ UNCHANGED <<scope, block, file, disk, library, running>>

WriterLeave ==
    /\ fmtr.indent_level > 0
    /\ fmtr' = indent_leave(fmtr, fmtr)
    /\ last' = [op |-> "indent: leave"]
    /\ UNCHANGED <<scope, log, block, file, disk, library, running>>

NextWriter == WriterWrite \/ WriterEnter \/ WriterLeave

SpecWriter == Init /\ [][NextWriter]_vars

\* ------------------------------------------------- reading rendered text
\* The use statements of a rendered import section, one per line: the chunks
\* before "use " are the visibility prefix, the chunk after it the path, and
\* the chunks after "::" that are no punctuation the names.
Punctuation == {"{", ", ", "};", ";"}

UseIndex(line) ==
    IF \E k \in 1..Len(line) : line[k] = "use "
    THEN CHOOSE k \in 1..Len(line) : line[k] = "use "
    ELSE 0

IsUse(line) == UseIndex(line) # 0

Stmt(line) ==
    LET k == UseIndex(line)
        rest == SubSeq(line, k + 3, Len(line))
    IN [prefix |-> SubSeq(line, 1, k - 1),
        path |-> line[k + 1],
        names |-> SelectSeq(rest, LAMBDA c : c \notin Punctuation),
        braced |-> rest[1] = "{"]

Stmts(text) ==
    LET ls == SelectSeq(lines(text), IsUse)
    IN [i \in 1..Len(ls) |-> Stmt(ls[i])]

\* The prefix each visibility is written with.
PrefixOf(vis) ==
    CASE vis = Private -> <<>>
      [] vis = Pub -> <<"pub ">>
      [] vis = PubCrate -> <<"pub(crate) ">>
      [] vis = PubSelf -> <<"pub(self) ">>
      [] vis = PubSuper -> <<"pub(super) ">>
      [] OTHER -> <<vis[2], " ">>

\* The calls of the log that inserted a key: the first call of each
\* (path, first segment), in call order, with the name it inserted.
RECURSIVE FirstCalls(_, _)
FirstCalls(calls, seen) ==
    IF calls = <<>> THEN <<>>
    ELSE LET c == Head(calls)
             key == <<c.path, c.ty[1]>>
         IN IF key \in seen THEN FirstCalls(Tail(calls), seen)
            ELSE <<[path |-> c.path, name |-> c.ty[1], vis |-> c.vis]>>
                 \o FirstCalls(Tail(calls), seen \cup {key})

Inserted == FirstCalls(log, {})

InsertedPairs == {<<Inserted[i].path, Inserted[i].vis>> : i \in 1..Len(Inserted)}

NamesOf(path, vis) ==
    LET sel == SelectSeq(Inserted, LAMBDA c : c.path = path /\ c.vis = vis)
    IN [i \in 1..Len(sel) |-> sel[i].name]

\* The paths in insertion order, and the visibilities in the order a scan of
\* the table (paths in insertion order, names in insertion order) meets them.
RECURSIVE Dedup(_, _)
Dedup(seq, seen) ==
    IF seq = <<>> THEN <<>>
    ELSE IF Head(seq) \in seen THEN Dedup(Tail(seq), seen)
         ELSE <<Head(seq)>> \o Dedup(Tail(seq), seen \cup {Head(seq)})

PathOrderOf(ins) == Dedup([i \in 1..Len(ins) |-> ins[i].path], {})

ScanOrderOf(ins, po) ==
    Concat([p \in 1..Len(po) |-> SelectSeq(ins, LAMBDA c : c.path = po[p])])

VisOrderOf(scan) == Dedup([i \in 1..Len(scan) |-> scan[i].vis], {})

PathOrder == PathOrderOf(Inserted)

VisOrder == VisOrderOf(ScanOrderOf(Inserted, PathOrder))

Rendered == last.op = "to_string" /\ ~last.ret.panicked

\* ----------------------------------------------------------------- claims
HasKey(s, path, name) ==
    \E i \in 1..Len(s.imports) :
        /\ s.imports[i].path = path
        /\ \E j \in 1..Len(s.imports[i].tys) : s.imports[i].tys[j].ty = name

\* C1: a push_import whose (path, name) key is already in the table is a
\* no-op: the table (key order and stored visibilities) is unchanged, also
\* when the call passes another visibility, and the rendered import section
\* is the one rendered before the call.
C1_DuplicateImportIsNoOp ==
    [][(/\ log' # log
        /\ last'.op = "push_import"
        /\ HasKey(scope, last'.path, last'.ty[1]))
       => (/\ scope'.imports = scope.imports
           /\ ImportSection(scope') = ImportSection(scope))]_vars

C1_Witness ==
    /\ last.op = "push_import"
    /\ Len(log) >= 2
    /\ \E i \in 1..(Len(log) - 1) :
        /\ log[i].path = last.path
        /\ log[i].ty[1] = last.ty[1]
        /\ log[i].vis # last.vis

\* C2: the number of use statements equals the number of distinct
\* (path, visibility) pairs that have a name; the statement of a pair lists
\* the names inserted under that path with that visibility, in insertion
\* order, bare when there is one and in braces when there are several; no two
\* statements are for the same pair.
C2_OneStatementPerPair ==
    Rendered =>
        LET st == Stmts(last.ret.text)
        IN /\ Len(st) = Cardinality(InsertedPairs)
           /\ \A pv \in InsertedPairs :
                \E i \in 1..Len(st) :
                    /\ st[i].path = pv[1]
                    /\ st[i].prefix = PrefixOf(pv[2])
                    /\ st[i].names = NamesOf(pv[1], pv[2])
                    /\ st[i].braced = (Len(st[i].names) > 1)
           /\ \A i, j \in 1..Len(st) :
                (st[i].path = st[j].path /\ st[i].prefix = st[j].prefix) => i = j

\* Three names in two statements: two of them in braces, the third bare
\* under another visibility.
C2_Witness ==
    /\ Rendered
    /\ Len(log) = 3
    /\ \A st \in {Stmts(last.ret.text)} :
        /\ Len(st) = 2
        /\ \E i, j \in 1..2 :
            /\ st[i].braced /\ Len(st[i].names) = 2
            /\ ~st[j].braced /\ st[j].prefix # st[i].prefix

Rank(order, x) == CHOOSE k \in 1..Len(order) : order[k] = x

\* C3: the statements are in a strict total order: by visibility, in the
\* order a scan of the table first meets each visibility, and within one
\* visibility by path insertion order.
C3_StatementOrder ==
    Rendered =>
        \A st \in {Stmts(last.ret.text)}, po \in {PathOrder}, vo \in {VisOrder} :
            \A pre \in {[k \in 1..Len(vo) |-> PrefixOf(vo[k])]} :
                \A i, j \in 1..Len(st) :
                    i < j =>
                        \/ Rank(pre, st[i].prefix) < Rank(pre, st[j].prefix)
                        \/ /\ Rank(pre, st[i].prefix) = Rank(pre, st[j].prefix)
                           /\ Rank(po, st[i].path) < Rank(po, st[j].path)

\* The visibility met first by the scan of the table is not the one of the
\* second call: the order of the calls and the order of the scan differ.
C3_Witness ==
    /\ Rendered
    /\ Len(log) = 3
    /\ \A vo \in {VisOrder} : Len(vo) = 3 /\ vo[2] # log[2].vis
    /\ Len(Stmts(last.ret.text)) = 3

FirstSegments(path) == {log[i].ty[1] : i \in {k \in 1..Len(log) : log[k].path = path}}

Occurrences(seq, x) == Cardinality({i \in 1..Len(seq) : seq[i] = x})

\* C4: only the segment before the first "::" of the name is the key and the
\* displayed name: the keys under a path are the first segments of the names
\* pushed for it, one entry each, and each is displayed once.
C4_FirstSegmentIsKey ==
    /\ \A i \in 1..Len(scope.imports) :
        LET e == scope.imports[i]
        IN /\ {e.tys[j].ty : j \in 1..Len(e.tys)} = FirstSegments(e.path)
           /\ Len(e.tys) = Cardinality(FirstSegments(e.path))
    /\ Rendered =>
        LET st == Stmts(last.ret.text)
            shown(path) == Concat([i \in 1..Len(st) |->
                                IF st[i].path = path THEN st[i].names ELSE <<>>])
        IN \A i \in 1..Len(scope.imports) :
            \A n \in FirstSegments(scope.imports[i].path) :
                Occurrences(shown(scope.imports[i].path), n) = 1

C4_Witness ==
    /\ Rendered
    /\ \E i, j \in 1..Len(log) :
        /\ log[i].path = log[j].path
        /\ log[i].ty # log[j].ty
        /\ Len(log[i].ty) > 1
        /\ log[i].ty[1] = log[j].ty[1]

ItemMarks == {"struct", "type", "// raw"}

IsDocLine(line) == line # <<>> /\ line[1] = "///"

IsItemLine(line) == \E k \in 1..Len(line) : line[k] \in ItemMarks

MarkOf(item) ==
    CASE item.kind = "Struct" -> "struct"
      [] item.kind = "TypeAlias" -> "type"
      [] item.kind = "Raw" -> "// raw"
      [] OTHER -> "none"

MarkIn(line) == CHOOSE m \in ItemMarks : \E k \in 1..Len(line) : line[k] = m

\* C5: whatever the order of the push_import calls and the item pushes, the
\* rendered text is the scope documentation, then every use statement, then
\* the items in push order: no use statement comes after an item.
C5_DocThenImportsThenItems ==
    Rendered =>
        \A ls \in {lines(last.ret.text)} :
            \A marked \in {SelectSeq(ls, IsItemLine)},
               pushed \in {SelectSeq(scope.items, LAMBDA it : it.kind # "LineBreak")} :
                /\ \A i, j \in 1..Len(ls) :
                    /\ (IsDocLine(ls[i]) /\ ~IsDocLine(ls[j])) => i < j
                    /\ (IsUse(ls[i]) /\ IsItemLine(ls[j])) => i < j
                /\ Len(SelectSeq(ls, IsUse)) = Cardinality(InsertedPairs)
                /\ (scope.doc # None) =>
                        Len(SelectSeq(ls, IsDocLine)) = Len(lines(scope.doc[1]))
                /\ [k \in 1..Len(marked) |-> MarkIn(marked[k])]
                        = [k \in 1..Len(pushed) |-> MarkOf(pushed[k])]

\* An import pushed between two items, and the documentation set.
C5_Witness ==
    /\ Rendered
    /\ scope.doc # None
    /\ \E i \in 1..Len(log) :
        /\ log[i].items_before > 0
        /\ Len(scope.items) > log[i].items_before
    /\ \E k \in 1..Len(scope.items) : scope.items[k].kind # "LineBreak"

\* The buffer after the first k items, and the chunks between the last chunk
\* of item k-1 and the first chunk of item k.
BufferUpTo(s, k) == Scope_render([s EXCEPT !.items = SubSeq(@, 1, k)]).output

LastText(buf) ==
    IF \E i \in 1..Len(buf) : buf[i] # NL
    THEN CHOOSE i \in 1..Len(buf) : buf[i] # NL /\ \A j \in (i + 1)..Len(buf) : buf[j] = NL
    ELSE 0

FirstTextAfter(buf, n) ==
    IF \E i \in (n + 1)..Len(buf) : buf[i] # NL
    THEN CHOOSE i \in (n + 1)..Len(buf) : buf[i] # NL /\ \A j \in (n + 1)..(i - 1) : buf[j] = NL
    ELSE Len(buf) + 1

Gap(s, k) ==
    LET before == BufferUpTo(s, k - 1)
        upto == BufferUpTo(s, k)
    IN SubSeq(upto, LastText(before) + 1, FirstTextAfter(upto, Len(before)) - 1)

\* C6: each item at an index > 0 that is no line break, and that
\* follows an item that is no line break, is separated from the text of the
\* item before it by exactly one empty line, whatever the kind of that item.
C6_OneEmptyLineBetweenItems ==
    Rendered =>
        \A k \in 2..Len(scope.items) :
            (scope.items[k].kind # "LineBreak" /\ scope.items[k - 1].kind # "LineBreak")
                => Gap(scope, k) = <<NL, NL>>

WithoutItem(s, k) ==
    [s EXCEPT !.items = SubSeq(@, 1, k - 1) \o SubSeq(@, k + 1, Len(@))]

\* C7: a LineBreak writes no text of its own: with one LineBreak between two
\* items the buffer is the buffer without it plus one newline at that place.
C7_LineBreakAddsOneEmptyLine ==
    Rendered =>
        \A k \in 2..(Len(scope.items) - 1) :
            scope.items[k].kind = "LineBreak" =>
                \A without \in {Scope_render(WithoutItem(scope, k)).output},
                   n \in {Len(BufferUpTo(scope, k - 1))} :
                    last.ret.buf = SubSeq(without, 1, n) \o <<NL>>
                                   \o SubSeq(without, n + 1, Len(without))

\* Two items with a line break between them: two empty lines between their
\* texts, where there is one without the line break.
C7_Witness ==
    /\ Rendered
    /\ Len(scope.items) = 3
    /\ scope.items[2].kind = "LineBreak"
    /\ scope.items[1].kind \notin {"LineBreak", "TypeAlias"}
    /\ scope.items[3].kind # "LineBreak"
    /\ Gap(scope, 3) = <<NL, NL, NL>>

\* C10: to_string returns the buffer of the render pass less one trailing
\* newline when the buffer ends with a newline, and the buffer otherwise.
C10_TrimsOneNewline ==
    Rendered =>
        IF last.ret.buf # <<>> /\ Last(last.ret.buf) = NL
        THEN last.ret.text \o <<NL>> = last.ret.buf
        ELSE last.ret.text = last.ret.buf

\* A buffer that ends with two newlines: one of them stays.
C10_Witness ==
    /\ Rendered
    /\ Len(last.ret.buf) >= 2
    /\ Last(last.ret.buf) = NL
    /\ Last(last.ret.text) = NL

Lead(line) ==
    LET text == {i \in 1..Len(line) : line[i] # SP}
    IN IF text = {} THEN Len(line)
       ELSE (CHOOSE i \in text : \A j \in text : i <= j) - 1

Strip(line) == SubSeq(line, Lead(line) + 1, Len(line))

DepthAt(ls, i) ==
    Cardinality({j \in 1..(i - 1) : Strip(ls[j]) = <<"{">>})
        - Cardinality({j \in 1..(i - 1) : Strip(ls[j]) = <<"}">>})

Aligned(ls) ==
    /\ DepthAt(ls, Len(ls) + 1) = 0
    /\ \A i \in 1..Len(ls) :
        \A text \in {Strip(ls[i])}, depth \in {DepthAt(ls, i)} :
            CASE text = <<>> -> TRUE
              [] text = <<"}">> -> depth >= 1 /\ Lead(ls[i]) = 4 * (depth - 1)
              [] OTHER -> Lead(ls[i]) = 4 * depth

\* C8: in the text of a block, each line of content inside D nested blocks
\* begins with exactly 4*D spaces and the closing brace of the D-th block is
\* at exactly 4*(D-1) spaces.  The depth of a line is read off the braces
\* of the lines before it.
C8_BlockIndentation ==
    last.op = "Block::fmt" => \A ls \in {lines(last.ret.output)} : Aligned(ls)

\* Content at depth 3: a line with twelve leading spaces, and two sibling
\* lines at depth 1.
C8_Witness ==
    /\ last.op = "Block::fmt"
    /\ Depth(block) = 3
    /\ \A ls \in {lines(last.ret.output)} :
        /\ \E i \in 1..Len(ls) :
            /\ Lead(ls[i]) = 12
            /\ DepthAt(ls, i) = 3
            /\ Strip(ls[i]) \notin {<<>>, <<"{">>, <<"}">>}
        /\ \E i, j \in 1..Len(ls) :
            /\ i < j
            /\ Strip(ls[i]) = <<"}">> /\ Strip(ls[j]) = <<"}">>
            /\ Lead(ls[i]) = 4 /\ Lead(ls[j]) = 0

RECURSIVE Fails(_)
Fails(body) ==
    \E i \in 1..Len(body) :
        \/ body[i].op = "fail"
        \/ body[i].op \in {"block", "indent"} /\ Fails(body[i].body)

\* C9: when block or indent returns, indent_level is what it was when the
\* operation was entered, whether the body succeeded or failed, and a failure
\* of the body is returned to the caller.
C9_IndentRestored ==
    last.op \in {"block", "indent"} =>
        /\ fmtr.indent_level = last.level_before
        /\ (last.ret = "Err") = Fails(last.body)

\* A body that fails two levels down.
C9_Witness ==
    /\ last.op = "block"
    /\ last.ret = "Err"
    /\ \E i \in 1..Len(last.body) :
        last.body[i].op = "block" /\ Fails(last.body[i].body)

\* C11: the text returned by to_string never ends with an empty line, that
\* is, with two consecutive newlines.
C11_NoTrailingBlankLine ==
    Rendered =>
        ~(/\ Len(last.ret.text) >= 2
          /\ last.ret.text[Len(last.ret.text)] = NL
          /\ last.ret.text[Len(last.ret.text) - 1] = NL)

\* The comment lines of a documentation text: "///" and, for a line that is
\* not empty, a space and the line; a newline between two lines only.
CommentLines(doc) ==
    LET ls == lines(doc)
    IN Concat([i \in 1..Len(ls) |->
            (IF i > 1 THEN <<NL>> ELSE <<>>)
            \o <<"///">>
            \o (IF ls[i] # <<>> THEN <<SP>> \o ls[i] ELSE <<>>)])

\* C12: a scope with no doc, no imports and no items renders as the empty
\* string, and a scope with only a documentation comment renders as exactly
\* its comment lines, with no newline after the last one.
C12_EmptyAndDocOnly ==
    (Rendered /\ scope.imports = <<>> /\ scope.items = <<>>) =>
        IF scope.doc = None THEN last.ret.text = <<>>
        ELSE last.ret.text = CommentLines(scope.doc[1])

\* A scope with only a documentation of three lines, the second one empty.
C12_Witness ==
    /\ Rendered
    /\ scope.imports = <<>> /\ scope.items = <<>>
    /\ scope.doc # None
    /\ Len(lines(scope.doc[1])) = 3
    /\ last.ret.text = <<"///", SP, "One.", NL, "///", NL, "///", SP, "Two.">>

HeadOf(st, f) == fmt_head(st.type_def, "struct", f).output

C14_EmptyStructIsTerminated ==
    last.op = "to_string" =>
        \A i \in 1..Len(scope.items) :
            (scope.items[i].kind = "Struct" /\ scope.items[i].fields.list = <<>>) =>
                /\ ~last.ret.panicked
                /\ \E k \in 1..Len(lines(last.ret.text)) :
                    lines(last.ret.text)[k]
                        = HeadOf(scope.items[i], Formatter_new) \o <<";">>

\* C16: on a Fields value, push_named makes Empty a Named list of the field
\* and appends to a Named list, push_tuple does the same with Tuple, and the
\* style then stays; push_tuple on Named and push_named on Tuple panic at the
\* call and leave the value as it was.
C16_FieldsKeepStyle ==
    [][/\ last'.op = "push_named_field" =>
            IF LastItem(scope).fields.style \in {"Empty", "Named"}
            THEN /\ ~last'.panic
                 /\ LastItem(scope').fields =
                        [style |-> "Named",
                         list |-> Append(LastItem(scope).fields.list, last'.arg)]
            ELSE last'.panic /\ scope' = scope
       /\ last'.op = "push_tuple_field" =>
            IF LastItem(scope).fields.style \in {"Empty", "Tuple"}
            THEN /\ ~last'.panic
                 /\ LastItem(scope').fields =
                        [style |-> "Tuple",
                         list |-> Append(LastItem(scope).fields.list, last'.arg)]
            ELSE last'.panic /\ scope' = scope]_vars

\* push_tuple_field has panicked on a struct that holds a named field.
C16_Witness ==
    /\ last.op = "push_tuple_field"
    /\ last.panic
    /\ LastItem(scope).fields.style = "Named"
    /\ Len(LastItem(scope).fields.list) >= 1

\* The functions of a scope that are rendered with is_trait false (the
\* scope's own and those of its impls) and with is_trait true (those of its
\* traits).
ConcreteFns(s) ==
    Concat([i \in 1..Len(s.items) |->
        CASE s.items[i].kind = "Function" -> <<s.items[i]>>
          [] s.items[i].kind = "Impl" -> s.items[i].functions
          [] OTHER -> <<>>])

TraitFns(s) ==
    Concat([i \in 1..Len(s.items) |->
        IF s.items[i].kind = "Trait" THEN s.items[i].functions ELSE <<>>])

Bodyless(fns) == {k \in 1..Len(fns) : fns[k].body = <<>>}

\* The lines "fn name();" and the lines "fn name() {" of a text.
SignatureLines(ls) ==
    {k \in 1..Len(ls) : \E name \in {"f", "g"} :
        Strip(ls[k]) = <<"fn ", name, "(", ")", ";">>}

BlockLines(ls) ==
    {k \in 1..Len(ls) : \E name \in {"f", "g"} :
        Strip(ls[k]) = <<"fn ", name, "(", ")", SP, "{">>}

\* C15: a function with an empty body list renders as its signature and ";"
\* with no braces as a trait member, and rendering it as a scope-level or
\* impl-level function is a panic: not an Err, and not an empty block.
C15_BodylessFunction ==
    last.op = "to_string" =>
        \A cf \in {ConcreteFns(scope)}, tf \in {TraitFns(scope)} :
            IF Bodyless(cf) # {}
            THEN last.ret.panicked /\ Scope_render(scope).res = "Panic"
            ELSE /\ ~last.ret.panicked
                 /\ \A ls \in {lines(last.ret.text)} :
                    /\ Cardinality(SignatureLines(ls)) = Cardinality(Bodyless(tf))
                    /\ Cardinality(BlockLines(ls))
                        = Len(cf) + Len(tf) - Cardinality(Bodyless(tf))

\* A trait with a function that has no body, rendered next to a function that
\* has one.
C15_Witness ==
    /\ Rendered
    /\ Bodyless(TraitFns(scope)) # {}
    /\ ConcreteFns(scope) # <<>>
    /\ \E k \in 1..Len(lines(last.ret.text)) :
        lines(last.ret.text)[k] = <<SP, SP, SP, SP, "fn ", "f", "(", ")", ";">>

\* C17: push_module and new_module panic at the call exactly when the scope
\* holds a module item of that name, and otherwise append the module as the
\* last item; the check is per scope: Module::push_module looks only at the
\* module's own scope.
ModulesNamed(s, name) ==
    {i \in 1..Len(s.items) : s.items[i].kind = "Module" /\ s.items[i].name = name}

C17_ModuleNameTaken ==
    [][/\ last'.op \in {"push_module", "new_module"} =>
            IF ModulesNamed(scope, last'.name) # {}
            THEN last'.panic /\ scope' = scope
            ELSE /\ ~last'.panic
                 /\ Len(scope'.items) = Len(scope.items) + 1
                 /\ SubSeq(scope'.items, 1, Len(scope.items)) = scope.items
                 /\ LastItem(scope').kind = "Module"
                 /\ LastItem(scope').name = last'.name
       /\ last'.op = "Module::push_module" =>
            IF ModulesNamed(scope.items[last'.ref].scope, last'.name) # {}
            THEN last'.panic /\ scope' = scope
            ELSE /\ ~last'.panic
                 /\ scope'.items[last'.ref].scope.items =
                        Append(scope.items[last'.ref].scope.items,
                               Module_new(last'.name))]_vars

\* new_module has panicked on a name that is taken, in a scope whose module
\* of that name holds a module of the same name.
C17_Witness ==
    /\ last.op = "new_module"
    /\ last.panic
    /\ \E i \in ModulesNamed(scope, last.name) :
        ModulesNamed(scope.items[i].scope, last.name) # {}

\* C18: get_or_new_module never panics; when a module of the name is in the
\* scope it leaves the items unchanged and returns the first module of that
\* name, as the earlier calls left it; otherwise it appends one new empty
\* module and returns it; exactly one module of the name is then in the scope.
C18_GetOrNewModule ==
    [][last'.op = "get_or_new_module" =>
        /\ ~last'.panic
        /\ IF ModulesNamed(scope, last'.name) # {}
           THEN /\ scope' = scope
                /\ last'.ref \in ModulesNamed(scope, last'.name)
                /\ \A i \in ModulesNamed(scope, last'.name) : last'.ref <= i
           ELSE /\ scope'.items = Append(scope.items, Module_new(last'.name))
                /\ last'.ref = Len(scope'.items)
        /\ Cardinality(ModulesNamed(scope', last'.name)) = 1]_vars

\* The second get_or_new_module of a name returns the module with the import
\* and the nested module that were pushed through the first reference.
C18_Witness ==
    /\ last.op = "get_or_new_module"
    /\ ~last.panic
    /\ scope.items[last.ref].name = last.name
    /\ scope.items[last.ref].scope.imports # <<>>
    /\ scope.items[last.ref].scope.items # <<>>
    /\ last.ref < Len(scope.items)

\* C19: a generate step on a destination that exists returns
\* FileAlreadyExists and leaves the disk as it was; otherwise it returns Ok
\* when the rendered text is in full in the file at out_dir/path after the
\* step, and FileGenerationFailed when it is not.
Dest == Resolve(join(OutDir, file.path))

C19_GenerateReportsFailures ==
    [][last'.op = "generate" =>
        IF Path_exists(disk, join(OutDir, file.path))
        THEN last'.ret = "FileAlreadyExists" /\ disk' = disk
        ELSE IF [at |-> Dest, text |-> Scope_to_string(file.scope).text]
                    \in disk'.files
             THEN last'.ret = "Ok"
             ELSE last'.ret = "FileGenerationFailed"]_vars

\* C19, the part the code keeps: an existing destination is reported and not
\* touched, and a file that was created holds the whole text when Ok is
\* returned.
C19_CreatedFileIsWhole ==
    [][last'.op = "generate" =>
        IF Path_exists(disk, join(OutDir, file.path))
        THEN last'.ret = "FileAlreadyExists" /\ disk' = disk
        ELSE /\ last'.ret \in {"Ok", "FileGenerationFailed"}
             /\ (last'.ret = "Ok" /\ disk' # disk) =>
                    [at |-> Dest, text |-> Scope_to_string(file.scope).text]
                        \in disk'.files
             /\ last'.ret = "FileGenerationFailed" =>
                    \E f \in FileAt(disk', Dest) :
                        Len(f.text) < Len(Scope_to_string(file.scope).text)]_vars

\* C20: after every push_file the paths held are pairwise distinct as paths
\* and none is the text `lib.rs`; a push_file whose path is `lib.rs` or equals the
\* path of a file held returns FileAlreadyExists and leaves the files as they
\* were; no push_file writes to the disk.
Held(lib) == {lib.files[i].path : i \in 1..Len(lib.files)}

Attempt(i, d) ==
    CHOOSE out \in
        {File_generate(library.files[i], library.path, dd,
                       last'.env[i].granted, last'.env[i].taken) : dd \in {d}} : TRUE

\* The disk after the attempts on the files 1..i, each made on the disk the
\* one before left.
RECURSIVE DiskAfter(_)
DiskAfter(i) == IF i = 0 THEN disk ELSE Attempt(i, DiskAfter(i - 1)).disk

Failing == {i \in 1..Len(library.files) : Attempt(i, DiskAfter(i - 1)).ret # "Ok"}

C21_StopsAtFirstFailure ==
    [][last'.op = "Library::generate" =>
        IF Failing = {}
        THEN last'.ret = "Ok" /\ disk' = DiskAfter(Len(library.files))
        ELSE \E k \in Failing :
                /\ \A j \in Failing : k <= j
                /\ last'.ret = "FileGenerationFailed"
                /\ last'.inner = Attempt(k, DiskAfter(k - 1)).ret
                /\ disk' = DiskAfter(k)]_vars

\* generate has failed at the second of three files, whose destination the
\* first had taken: the first is on the disk with its text, the third is not.
C21_Witness ==
    /\ last.op = "Library::generate"
    /\ last.ret = "FileGenerationFailed"
    /\ last.inner = "FileAlreadyExists"
    /\ Len(library.files) = 3
    /\ library.files[3].path = <<"b.rs">>
    /\ \A i \in 1..3 : last.env[i] = Granted
    /\ disk.files = {[at |-> <<"out", "a.rs">>,
                      text |-> Scope_to_string(library.files[1].scope).text]}

\* C29: a generate that returns Ok on an empty directory leaves on the disk
\* exactly the files held by the library, each with its text, and no file
\* of the library's own lib.
OnDisk(d) == {f.at : f \in d.files}

C29_GenerateWritesExactlyTheFiles ==
    [][(last'.op = "Library::generate" /\ last'.ret = "Ok" /\ disk.files = {}) =>
        /\ OnDisk(disk') = {Resolve(join(library.path, library.files[i].path)) :
                                i \in 1..Len(library.files)}
        /\ Resolve(join(library.path, library.lib.path)) \notin OnDisk(disk')]_vars

\* C29, the part the code keeps: generate writes at the destinations of the
\* files held and nowhere else, so never at lib.rs.
C29_WritesNothingElse ==
    [][last'.op = "Library::generate" =>
        /\ OnDisk(disk') \subseteq
                OnDisk(disk) \cup {Resolve(join(library.path, library.files[i].path)) :
                                        i \in 1..Len(library.files)}
        /\ Resolve(join(library.path, library.lib.path)) \notin OnDisk(disk')]_vars

\* C30: of two generate calls for one destination at most one returns Ok, and
\* no step of a call changes a file that is at the destination when the call
\* has not created it.
C30_NoOverwrite ==
    [][/\ ~(\A i \in Callers : running'[i].pc = "done" /\ running'[i].ret = "Ok")
       /\ \A i \in Callers :
            (running[i].pc = "create" /\ running'[i].pc # "create") =>
                \A f \in disk.files : f \in disk'.files]_vars

\* C30 without interleaving: a call whose steps are not interleaved with
\* another writer's never changes a file that is there.
C30_AloneNoOverwrite ==
    [][\A i \in Callers :
        (running[i].pc = "create" /\ running'[i].pc # "create"
            /\ last.op = "exists" /\ last.caller = i) =>
                \A f \in disk.files : f \in disk'.files]_vars

\* C22: at_line_start is true exactly when the output is empty or ends in a
\* newline, after every write and at every indentation level; a write of the
\* empty string changes nothing.
EndsLine(f) == f.output = <<>> \/ Last(f.output) = NL

C22_AtLineStart ==
    [][/\ fmtr'.at_line_start <=> EndsLine(fmtr')
       /\ (last'.op = "write_str" /\ last'.text \in {<<>>, <<"">>}) => fmtr' = fmtr]_vars

\* A write at the start of a line inside an indented body: the indentation
\* went out before the text and at_line_start is false.
C22_Witness ==
    /\ last.op = "write_str"
    /\ last.text = <<"x;">>
    /\ fmtr.indent_level = 1
    /\ fmtr.output = <<"x;", NL>> \o Repeat(SP, INDENT_WIDTH) \o <<"x;">>
    /\ ~fmtr.at_line_start

\* C25: a newline written at the start of a line inside an indented body
\* adds an empty line: no line of the output is made of spaces only.
OnlySpaces(line) == line # <<>> /\ \A k \in 1..Len(line) : line[k] = SP

NamedStructs(s) ==
    {i \in 1..Len(s.items) :
        /\ s.items[i].kind = "Struct"
        /\ s.items[i].fields.style = "Named"
        /\ s.items[i].fields.list # <<>>}

AfterHead(st) == fmt_head(st.type_def, "struct", Formatter_new)
AfterBlock(st) == Fields_fmt(st.fields, AfterHead(st))
AfterStruct(st) == Struct_fmt(st, Formatter_new)

InParts(s, separator) ==
    OptDoc_fmt(s.doc, Formatter_new).output
        \o ImportSection(s) \o separator
        \o items_fmt(s.items, 1, Formatter_new).output

ScopesOf(s) ==
    {s} \cup {s.items[i].scope : i \in {j \in 1..Len(s.items) : s.items[j].kind = "Module"}}

\* C24: Scope::fmt writes the empty line after the import section if and
\* only if at least one use statement was rendered, also when the scope has
\* no items; checked for the rendered scope and for the scope of each of its
\* modules.
C24_SeparatorFollowsUseStatements ==
    Rendered => \A s \in ScopesOf(scope) :
        Scope_render(s).output
            = InParts(s, IF ImportSection(s) # <<>> THEN <<NL>> ELSE <<>>)

\* What the code does: the empty line is written exactly when the table has
\* a path, whether or not a name is stored under it.
C24_SeparatorFollowsTable ==
    Rendered => \A s \in ScopesOf(scope) :
        Scope_render(s).output = InParts(s, IF s.imports # <<>> THEN <<NL>> ELSE <<>>)

\* A module that holds one import and no item: the use statement, one empty
\* line, then the closing brace.
C24_Witness ==
    /\ Rendered
    /\ \E k \in 1..Len(lines(last.ret.text)) - 3 :
        /\ lines(last.ret.text)[k] = <<"mod ", "m", SP, "{">>
        /\ lines(last.ret.text)[k + 1] = <<SP, SP, SP, SP, "use ", "bar", "::", "Bar", ";">>
        /\ lines(last.ret.text)[k + 2] = <<>>
        /\ lines(last.ret.text)[k + 3] = <<"}">>

\* The lines of a text that are the first line of function `name` written
\* with the prefix of visibility vis, whatever their indentation.
FnLines(ls, vis, name) ==
    {k \in 1..Len(ls) :
        Strip(ls[k]) = Vis_fmt(vis, Formatter_new).output
                            \o <<"fn ", name, "(", ")", SP, "{">>}

Having(fns, vis, name) ==
    {k \in 1..Len(fns) : fns[k].vis = vis /\ fns[k].name = name}

\* C26: a render panics when a trait holds a function whose visibility is
\* not Private; in a render that returns, a trait member is written with no
\* prefix before `fn`, and a function of the scope or of an impl is written
\* with the prefix of its visibility before `fn`.
C26_TraitFunctionVisibility ==
    last.op = "to_string" =>
        \A cf \in {ConcreteFns(scope)}, tf \in {TraitFns(scope)} :
            /\ (\E k \in 1..Len(tf) : tf[k].vis # Private) => last.ret.panicked
            /\ ~last.ret.panicked =>
                \A ls \in {lines(last.ret.text)} :
                    /\ Cardinality(FnLines(ls, Private, "t")) = Len(tf)
                    /\ \A vis \in {Private, Pub, PubCrate}, name \in {"f", "g"} :
                        Cardinality(FnLines(ls, vis, name))
                            = Cardinality(Having(cf, vis, name))

\* A render that panicked on a trait with a Pub member, although every
\* function had a body and the scope held a `pub fn` before the trait.
C26_Witness ==
    /\ last.op = "to_string" /\ last.ret.panicked
    /\ Bodyless(ConcreteFns(scope)) = {} /\ Bodyless(TraitFns(scope)) = {}
    /\ \E k \in 1..Len(TraitFns(scope)) : TraitFns(scope)[k].vis = Pub
    /\ Having(ConcreteFns(scope), Pub, "f") # {}

\* C27: no two module items of the scope have the same name, in every state
\* reached through push_module, new_module, get_or_new_module and
\* Module::set_name on a module obtained from get_module_mut.
C27_ModuleNamesUnique ==
    \A name \in ModuleNames : Cardinality(ModulesNamed(scope, name)) <= 1

\* What holds with the renaming too: a call of push_module, new_module or
\* get_or_new_module never adds a second module of a name.
C27_PushKeepsNames ==
    [][last'.op \in {"push_module", "new_module", "get_or_new_module"} =>
        \A name \in ModuleNames :
            Cardinality(ModulesNamed(scope', name))
                <= IF ModulesNamed(scope, name) = {} THEN 1
                   ELSE Cardinality(ModulesNamed(scope, name))]_vars

\* The separation of the functions in the text of one trait or impl block:
\* the line before the first function is empty exactly when the block holds
\* an associated const or an associated type, the line before every later
\* function is empty, and the line before an empty line is not.
Separated(item) ==
    \A ls \in {lines(Item_fmt(item, Formatter_new).output)} :
        \A fns \in {FnLines(ls, Private, "g")} :
            /\ Cardinality(fns) = Len(item.functions)
            /\ \A k \in fns :
                /\ ls[k - 1] = <<>>
                    <=> \/ \E j \in fns : j < k
                        \/ item.associated_consts # <<>>
                        \/ item.associated_types # <<>>
                /\ ls[k - 1] = <<>> => ls[k - 2] # <<>>

Blocks(s, kinds) == {i \in 1..Len(s.items) : s.items[i].kind \in kinds}

\* C28: trait and impl blocks separate their members by the same rule: the
\* first function is preceded by one empty line exactly when a const or a
\* type was rendered before it in the block, every later function by exactly
\* one empty line.
C28_MembersSeparated ==
    Rendered => \A i \in Blocks(scope, {"Trait", "Impl"}) : Separated(scope.items[i])

\* What the code does: the rule holds in every trait block, and in every
\* impl block that holds an associated type or no associated const.
C28_TraitMembersSeparated ==
    Rendered => \A i \in Blocks(scope, {"Trait", "Impl"}) :
        \/ scope.items[i].kind = "Impl"
            /\ scope.items[i].associated_consts # <<>>
            /\ scope.items[i].associated_types = <<>>
        \/ Separated(scope.items[i])

\* An impl with two functions and no const or type (the first function
\* right after the opening line, one empty line before the second) next to
\* a trait with a const and a function.
C28_Witness ==
    /\ Rendered
    /\ \E i \in Blocks(scope, {"Impl"}) :
        /\ Len(scope.items[i].functions) = 2
        /\ scope.items[i].associated_consts = <<>>
        /\ scope.items[i].associated_types = <<>>
    /\ \E i \in Blocks(scope, {"Trait"}) :
        /\ scope.items[i].functions # <<>>
        /\ scope.items[i].associated_consts # <<>>

====
